---- MODULE Spec2Model ----
(***************************************************************************)
(* Streaming search relay of ira-backend.                                  *)
(*                                                                         *)
(* SearchStreamService (src/src/services/searchStreamService.js) drives    *)
(* one streaming search: it records the status of the search, opens the    *)
(* upstream IRA thread and stream, and handles the upstream 'data', 'end'  *)
(* and 'error' callbacks.  Every callback is an async function: the event  *)
(* emitter does not wait for the promise it returns, so a callback that is *)
(* suspended on a database write (await prisma...) is interleaved with     *)
(* the callbacks of later upstream events.  A step of this model is what   *)
(* one callback does between two such suspensions: Node runs it without    *)
(* interruption (awaits of already settled promises only yield to the      *)
(* microtask queue, which no I/O event can enter).                         *)
(*                                                                         *)
(* The model follows one search (one searchId): activeStreams, streamInfo  *)
(* and the callbacks' buffer are all per search.  A database write either  *)
(* resolves or rejects; the client itself stays connected (getClient does  *)
(* not throw once performStreamingSearch has used it).                     *)
(***************************************************************************)
EXTENDS Naturals, Sequences, FiniteSets

\* Bounds of the model.
MaxFrames == 2       \* upstream frames delivered to one search
MaxChunkFrames == 2  \* frames completed by one upstream chunk
MaxStops == 2        \* calls of stopStream
MaxCeiling == 2      \* largest options.maxConnections given to an SSEManager
connectionTimeout == 1  \* options.connectionTimeout, in clock ticks
MaxAttach == 2       \* SSEConnection objects created
MaxTime == 2         \* clock ticks
MaxWritten == 2      \* events written to one transport by the hub's own callers
MaxAudience == 1     \* connections opened on a search that is followed step by step
MaxBytes == 5        \* bytes of an upstream body that is followed byte by byte
MaxMessages == 2     \* messages in the list of one classified frame
MaxClassified == 1   \* frames of a search whose frames are of every shape

VARIABLES
  startPc,     \* position of performStreamingSearch / startStreamSearch
  startErr,    \* the error caught by startStreamSearch's catch block
  dbStatus,    \* metadata.status of the searchQuery row
  dbError,     \* metadata.error of the searchQuery row
  dbTotal,     \* metadata.totalResults of the searchQuery row: <<>> or <<n>>
  statusLog,   \* every status written to the row, in order of the writes
  active,      \* activeStreams.has(searchId)
  sequence,    \* streamInfo.sequence
  upstream,    \* state of streamResponse.body
  buffer,      \* the 'data' callbacks' buffer: the frame not yet terminated
  frames,      \* the frames upstream has delivered, in delivery order
  tasks,       \* the callbacks started so far, each with its position
  persisted,   \* the searchResult rows, in the order of their creation
  failed,      \* the sequence numbers of the events whose create() failed
  broadcasts,  \* the calls of sseManager.broadcastToSearch, in order
  stopCalls    \* how many times stopStream has been called

\* The SSEManager singleton (src/src/sse/sseManager.js) and its connections.
VARIABLES
  conn,             \* the SSEConnection objects created so far, by number
  response,         \* the transport of each connection, with what reached it
  connections,      \* SSEManager.connections: searchId -> set of connections
  userConnections,  \* SSEManager.userConnections: userId -> set of connections
  maxConnections,   \* SSEManager.maxConnections
  cleanupInterval,  \* whether the manager's sweep timer is running
  now,              \* Date.now(), in clock ticks
  thrown            \* the error the last call of the manager's API threw

\* The upstream body as processIRAStream's callbacks read it, byte by byte.
VARIABLES
  wire,         \* the bytes streamResponse.body has delivered so far
  chunkBuffer,  \* the callbacks' `buffer`, as the characters it holds
  decoded,      \* the blocks handed to processStreamEvent, in order
  bodyEnded     \* whether the 'end' callback has run

decoderVars == <<wire, chunkBuffer, decoded, bodyEnded>>

orchestratorVars ==
  <<startPc, startErr, dbStatus, dbError, dbTotal, statusLog, active,
    sequence, upstream, buffer, frames, tasks, persisted, failed,
    broadcasts, stopCalls>>

hubVars == <<conn, response, connections, userConnections, maxConnections,
             cleanupInterval, now, thrown>>

vars == <<startPc, startErr, dbStatus, dbError, dbTotal, statusLog, active,
          sequence, upstream, buffer, frames, tasks, persisted, failed,
          broadcasts, stopCalls, conn, response, connections, userConnections,
          maxConnections, cleanupInterval, now, thrown, wire, chunkBuffer,
          decoded, bodyEnded>>

(***************************************************************************)
(* Upstream frames.  A frame is what parseSSEData returns for one block of *)
(* the upstream stream: an event with a type and parsed data, or null      *)
(* (NoEvent) when the block holds no event:, data: or id: line.  The data  *)
(* is abstracted to the fields the classifier reads.                       *)
(***************************************************************************)
NoData == [kind |-> "none", messages |-> <<>>, final_result |-> "",
           elems |-> <<>>, json |-> ""]

\* A message object.  content is "" when the message has no content (the
\* property is absent or empty); tool_calls is <<>> when the message has no
\* such property and <<calls>> when it has the list calls.
TypedMessage(type, content, toolCalls) ==
  [isNull |-> FALSE, content |-> content, tool_calls |-> toolCalls,
   type |-> type]

Message(content, toolCalls) == TypedMessage("ai", content, toolCalls)

NullMessage ==
  [isNull |-> TRUE, content |-> "", tool_calls |-> <<>>, type |-> ""]

NoEvent == [type |-> "null", data |-> NoData]

MetadataFrame ==
  [type |-> "metadata",
   data |-> [kind |-> "object", messages |-> <<>>, final_result |-> "",
             elems |-> <<>>, json |-> "{run_id}"]]

ThinkingFrame ==
  [type |-> "values",
   data |-> [kind |-> "object", messages |-> <<Message("Looking into X", <<>>)>>,
             final_result |-> "", elems |-> <<>>, json |-> "{messages}"]]

ReportFrame ==
  [type |-> "values",
   data |-> [kind |-> "object", messages |-> <<>>,
             final_result |-> "Report body", elems |-> <<>>,
             json |-> "{final_result}"]]

EmptyValuesFrame ==
  [type |-> "values",
   data |-> [kind |-> "object", messages |-> <<>>, final_result |-> "",
             elems |-> <<>>, json |-> "{}"]]

NullMessageFrame ==
  [type |-> "values",
   data |-> [kind |-> "object", messages |-> <<NullMessage>>,
             final_result |-> "", elems |-> <<>>, json |-> "{messages:[null]}"]]

\* The frames upstream delivers under Spec: one that is broadcast only, one
\* that is persisted and broadcast, one that is dropped.
Frames == {MetadataFrame, ThinkingFrame, EmptyValuesFrame}

Nothing == [type |-> "NOTHING", content |-> ""]
Throws == [type |-> "THROWS", content |-> ""]

\* A classifier that goes by the first message of the list.
firstMessageOf(list) == list[1]

\* const lastMessage = data.messages[data.messages.length - 1] (values) and
\* data[data.length - 1] (messages), for a list that is not empty.
lastMessageOf(list) == list[Len(list)]

\* Whether parseSSEData gave the event a data property: the block has a
\* data: line that is not blank.
isDefined(data) == data.kind # "none"

\* eventData.data as a condition: the property is there and its value is not
\* a falsy one (the number 0, false, the empty string).
truthy(data) == data.kind \notin {"none", "falsy"}

\* JSON.stringify(data)
JSON_stringify(data) == data.json

\* IRAService.processStreamEvent: the classifier.
IRAService_processStreamEvent(eventData) ==
  IF eventData.type = "null" \/ ~truthy(eventData.data) THEN Nothing
  ELSE LET data == eventData.data IN
    CASE eventData.type = "metadata" ->
           [type |-> "METADATA", content |-> data]
      [] eventData.type = "values" ->
           IF Len(data.messages) > 0 /\ lastMessageOf(data.messages).isNull
             THEN Throws
           ELSE IF Len(data.messages) > 0
                   /\ lastMessageOf(data.messages).content # ""
             THEN [type |-> "THINKING",
                   content |-> lastMessageOf(data.messages).content]
           ELSE IF data.final_result # ""
             THEN [type |-> "REPORT", content |-> data.final_result]
           ELSE Nothing
      [] eventData.type = "messages" ->
           IF data.kind = "array" /\ Len(data.elems) > 0
              /\ ~lastMessageOf(data.elems).isNull
              /\ lastMessageOf(data.elems).content # ""
             THEN LET lastMessage == lastMessageOf(data.elems)
                      isToolCall == /\ lastMessage.tool_calls # <<>>
                                    /\ Len(lastMessage.tool_calls[1]) > 0
                  IN [type |-> IF isToolCall THEN "THINKING"
                                             ELSE "INTERMEDIATE",
                      content |-> lastMessage.content,
                      metadata |->
                        [messageType |-> lastMessage.type,
                         toolCalls |-> IF lastMessage.tool_calls = <<>>
                                         THEN <<>>
                                         ELSE lastMessage.tool_calls[1]]]
             ELSE Nothing
      [] OTHER -> [type |-> "INTERMEDIATE", content |-> JSON_stringify(data)]

\* A classifier failure that is not caught before the sequence counter.
SkippedUnlessThrows(frame) ==
  IRAService_processStreamEvent(frame).type = "NOTHING"

\* Whether SearchStreamService.processStreamEvent returns before it touches the sequence counter:
\* parseSSEData or the classifier returned null, or the classifier threw
\* (caught and logged by its catch block).
Skipped(frame) ==
  IRAService_processStreamEvent(frame).type \in {"NOTHING", "THROWS"}

(***************************************************************************)
(* SearchStreamService.processStreamEvent, up to its first suspension.     *)
(***************************************************************************)
\* A counter that is derived from the rows stored so far.
nextSequenceFromRows(seq) == Len(persisted) + 1

\* streamInfo.sequence++
nextSequence(seq) == seq + 1

\* if (resultData.type !== 'METADATA') await prisma.searchResult.create(...)
needsCreate(resultData) == resultData.type # "METADATA"

\* One call of sseManager.broadcastToSearch(searchId, eventType, data, eventId).
\* id is <<>> for eventId = null and <<n>> for the string of n.
Broadcast(eventType, type, content, id, total) ==
  [event |-> eventType, type |-> type, content |-> content, id |-> id,
   total |-> total]

\* broadcastToSearch(searchId, 'result', {type, content, sequence, ...},
\*                   resultData.sequence.toString())
resultBroadcast(resultData) ==
  Broadcast("result", resultData.type, resultData.content,
            <<resultData.sequence>>, 0)

\* A broadcast that does not depend on the outcome of the write.
createOutcomeAlwaysBroadcast(ok, resultData) ==
  [rows |-> IF ok THEN <<resultData>> ELSE <<>>,
   bc |-> <<resultBroadcast(resultData)>>,
   failed |-> IF ok THEN {} ELSE {resultData.sequence}]

\* What the end of `await prisma.searchResult.create` leads to: the row and
\* the broadcast when the write succeeded, the catch block's log otherwise.
createOutcome(ok, resultData) ==
  [rows |-> IF ok THEN <<resultData>> ELSE <<>>,
   bc |-> IF ok THEN <<resultBroadcast(resultData)>> ELSE <<>>,
   failed |-> IF ok THEN {} ELSE {resultData.sequence}]

\* for (const eventData of events) await this.processStreamEvent(...): the
\* frames fs are processed in order from counter value seq until one of them
\* suspends on its create().  cur is that event (<<>> if none), rest the
\* frames after it, bc the broadcasts made on the way (METADATA events).
RECURSIVE runFrames(_, _)
runFrames(fs, seq) ==
  IF fs = <<>>
    THEN [seq |-> seq, bc |-> <<>>, cur |-> <<>>, rest |-> <<>>]
  ELSE IF Skipped(Head(fs)) THEN runFrames(Tail(fs), seq)
  ELSE LET r == IRAService_processStreamEvent(Head(fs))
           resultData == [sequence |-> nextSequence(seq), type |-> r.type,
                          content |-> r.content]
       IN IF needsCreate(resultData)
            THEN [seq |-> resultData.sequence, bc |-> <<>>,
                  cur |-> <<resultData>>, rest |-> Tail(fs)]
            ELSE LET n == runFrames(Tail(fs), resultData.sequence)
                 IN [n EXCEPT !.bc = <<resultBroadcast(resultData)>> \o n.bc]

(***************************************************************************)
(* Callbacks.  A task is a callback suspended on a database write:         *)
(*   pc = "create"    in processStreamEvent, on searchResult.create        *)
(*   pc = "complete"  in completeSearch, on searchQuery.update             *)
(*   pc = "fail"      in failSearch, on searchQuery.update                 *)
(* kind is the callback ("data", "end", "error") or "stop" for stopStream. *)
(***************************************************************************)
Task(kind, pc, cur, rest, total, msg) ==
  [kind |-> kind, pc |-> pc, cur |-> cur, rest |-> rest, total |-> total,
   msg |-> msg]

\* completeSearch up to its await: the update carries streamInfo.sequence.
completeSearch(kind, seq) == Task(kind, "complete", <<>>, <<>>, seq, "")

\* An error path that ends the search like a natural end.
failSearchAsComplete(kind, errorMessage, seq) == completeSearch(kind, seq)

\* failSearch up to its await: the update carries the message and
\* streamInfo?.sequence || 0.
failSearch(kind, errorMessage, seq) ==
  Task(kind, "fail", <<>>, <<>>, seq, errorMessage)

\* The callback after its frames r == runFrames(...) ran: suspended on a
\* create(), or past its loop: a 'data' callback returns, the 'end' callback
\* goes on to completeSearch.
afterFrames(kind, r) ==
  IF r.cur # <<>> THEN <<Task(kind, "create", r.cur, r.rest, 0, "")>>
  ELSE IF kind = "end" THEN <<completeSearch("end", r.seq)>>
  ELSE <<>>

(***************************************************************************)
(* SSEManager and SSEConnection (src/src/sse/sseManager.js).  A transport  *)
(* is the hand-rolled response object of the route: it has no writeHead,   *)
(* and its write either works, throws, or is missing.  The hub's state is  *)
(* passed to the methods below as one record h.                            *)
(***************************************************************************)
SearchId == "s1"  \* the search the orchestrator part of the model follows
UserId == "u1"    \* the user who started it
Searches == {"s1", "s2"}
Users == {"u1", "u2"}
Writes == {"ok", "throws", "none"}

EmptyMap == [k \in {} |-> {}]

Hub == [conn |-> conn, response |-> response, connections |-> connections,
        userConnections |-> userConnections, maxConnections |-> maxConnections]

connectedEvent(searchId) == Broadcast("connected", "", searchId, <<>>, 0)
heartbeatEvent == Broadcast("heartbeat", "", "", <<>>, 0)
disconnectEvent ==
  Broadcast("disconnect", "", "Connection closed by server", <<>>, 0)

\* A send that reports success whatever the write did.
sendEventAlwaysTrue(h, c, event) ==
  IF ~h.conn[c].connected THEN [hub |-> h, sent |-> TRUE]
  ELSE IF h.response[c].write = "ok"
    THEN [hub |-> [h EXCEPT !.response[c].written = Append(@, event),
                            !.conn[c].lastActivity = now],
          sent |-> TRUE]
  ELSE IF h.response[c].write = "throws"
    THEN [hub |-> [h EXCEPT !.conn[c].connected = FALSE], sent |-> TRUE]
  ELSE [hub |-> h, sent |-> TRUE]

\* SSEConnection.sendEvent: nothing is written on a connection that is not
\* connected; a write that throws marks the connection disconnected; a
\* response without write is only warned about.
sendEvent(h, c, event) ==
  IF ~h.conn[c].connected THEN [hub |-> h, sent |-> FALSE]
  ELSE IF h.response[c].write = "ok"
    THEN [hub |-> [h EXCEPT !.response[c].written = Append(@, event),
                            !.conn[c].lastActivity = now],
          sent |-> TRUE]
  ELSE IF h.response[c].write = "throws"
    THEN [hub |-> [h EXCEPT !.conn[c].connected = FALSE], sent |-> FALSE]
  ELSE [hub |-> h, sent |-> FALSE]

\* A close that ends the transport whether or not it is still connected.
closeAlwaysEnds(h, c) ==
  [h EXCEPT !.conn[c].heartbeatInterval = FALSE,
            !.conn[c].connected = FALSE,
            !.response[c].ended = @ + 1]

\* A close that sends 'disconnect' whether or not the connection is still
\* marked connected.
closeNotifiesAgain(h, c) ==
  LET h1 == [h EXCEPT !.conn[c].heartbeatInterval = FALSE,
                      !.conn[c].connected = TRUE]
      h2 == [sendEvent(h1, c, disconnectEvent).hub
               EXCEPT !.response[c].ended = @ + 1]
  IN [h2 EXCEPT !.conn[c].connected = FALSE]

\* SSEConnection.close: the heartbeat timer is cleared; a connection that is
\* still connected gets 'disconnect' and its transport is ended.
close(h, c) ==
  LET h1 == [h EXCEPT !.conn[c].heartbeatInterval = FALSE]
      h2 == IF h1.conn[c].connected
              THEN [sendEvent(h1, c, disconnectEvent).hub
                      EXCEPT !.response[c].ended = @ + 1]
              ELSE h1
  IN [h2 EXCEPT !.conn[c].connected = FALSE]

\* map.get(key).add(c), after map.set(key, new Set()) if the key is new.
MapAdd(map, key, c) ==
  [k \in DOMAIN map \cup {key} |->
     IF k = key
       THEN (IF key \in DOMAIN map THEN map[key] ELSE {}) \cup {c}
       ELSE map[k]]

\* map.get(key).delete(c), and map.delete(key) if the set is empty then.
MapDelete(map, key, c) ==
  IF key \notin DOMAIN map THEN map
  ELSE IF map[key] \ {c} = {}
    THEN [k \in DOMAIN map \ {key} |-> map[k]]
  ELSE [map EXCEPT ![key] = @ \ {c}]

\* Array.from(map.values()).reduce((total, set) => total + set.size, 0)
RECURSIVE totalConnections(_)
totalConnections(map) ==
  IF DOMAIN map = {} THEN 0
  ELSE LET key == CHOOSE k \in DOMAIN map : TRUE
       IN Cardinality(map[key])
            + totalConnections([k \in DOMAIN map \ {key} |-> map[k]])

\* The connections in the sets of a map.
Registered(map) == UNION {map[k] : k \in DOMAIN map}

\* A removal that leaves the connection in the per-user index.
removeConnectionSearchOnly(h, c) ==
  close([h EXCEPT !.connections = MapDelete(@, h.conn[c].searchId, c)], c)

\* SSEManager.removeConnection
removeConnection(h, c) ==
  close([h EXCEPT
           !.connections = MapDelete(@, h.conn[c].searchId, c),
           !.userConnections = MapDelete(@, h.conn[c].userId, c)], c)

\* list.forEach(connection => this.removeConnection(connection))
RECURSIVE removeEach(_, _)
removeEach(h, cs) ==
  IF cs = {} THEN h
  ELSE LET c == CHOOSE x \in cs : TRUE
       IN removeEach(removeConnection(h, c), cs \ {c})

\* connections.forEach(connection => connection.sendEvent(...) ? ... : ...)
RECURSIVE sendEach(_, _, _)
sendEach(h, cs, event) ==
  IF cs = {} THEN [hub |-> h, failedConnections |-> {}]
  ELSE LET c == CHOOSE x \in cs : TRUE
           s == sendEvent(h, c, event)
           r == sendEach(s.hub, cs \ {c}, event)
       IN IF s.sent THEN r
          ELSE [r EXCEPT !.failedConnections = @ \cup {c}]

\* A broadcast that gives up at the first failed write.
broadcastToSearchAborts(h, searchId, event) ==
  IF searchId \notin DOMAIN h.connections THEN [hub |-> h, successCount |-> 0]
  ELSE LET cs == h.connections[searchId]
           bad == {c \in cs : ~sendEvent(h, c, event).sent}
       IN IF bad = {}
            THEN [hub |-> sendEach(h, cs, event).hub,
                  successCount |-> Cardinality(cs)]
            ELSE [hub |-> removeEach(sendEach(h, bad, event).hub, bad),
                  successCount |-> 0]

\* A broadcast that reaches every registered connection.
broadcastToAll(h, searchId, event) ==
  LET cs == Registered(h.connections)
      r == sendEach(h, cs, event)
  IN [hub |-> removeEach(r.hub, r.failedConnections),
      successCount |-> Cardinality(cs) - Cardinality(r.failedConnections)]

\* SSEManager.broadcastToSearch
broadcastToSearch(h, searchId, event) ==
  IF searchId \notin DOMAIN h.connections \/ h.connections[searchId] = {}
    THEN [hub |-> h, successCount |-> 0]
  ELSE LET cs == h.connections[searchId]
           r == sendEach(h, cs, event)
       IN [hub |-> removeEach(r.hub, r.failedConnections),
           successCount |-> Cardinality(cs) - Cardinality(r.failedConnections)]

\* The orchestrator's broadcasts bs, delivered in order.
RECURSIVE deliver(_, _)
deliver(h, bs) ==
  IF bs = <<>> THEN h
  ELSE deliver(broadcastToSearch(h, SearchId, Head(bs)).hub, Tail(bs))

\* A connection that is set up without its 'connected' event.
SSEConnectionSilent(h, searchId, userId, write) ==
  [h EXCEPT
     !.conn = Append(@, [searchId |-> searchId, userId |-> userId,
                         connected |-> TRUE, lastActivity |-> now,
                         heartbeatInterval |-> TRUE]),
     !.response = Append(@, [write |-> write, written |-> <<>>,
                             ended |-> 0])]

\* new SSEConnection(searchId, userId, response): 'connected' is sent and
\* the heartbeat timer started.
SSEConnection(h, searchId, userId, write) ==
  LET c == Len(h.conn) + 1
      h0 == [h EXCEPT
               !.conn = Append(@, [searchId |-> searchId, userId |-> userId,
                                   connected |-> TRUE, lastActivity |-> now,
                                   heartbeatInterval |-> FALSE]),
               !.response = Append(@, [write |-> write, written |-> <<>>,
                                       ended |-> 0])]
  IN [sendEvent(h0, c, connectedEvent(searchId)).hub
        EXCEPT !.conn[c].heartbeatInterval = TRUE]

\* A ceiling that is tested after one more connection than allowed.
atCeilingOffByOne(h) == totalConnections(h.connections) > h.maxConnections

\* if (totalConnections >= this.maxConnections) throw ...
atCeiling(h) == totalConnections(h.connections) >= h.maxConnections

\* SSEManager.addConnection, past the ceiling test.
addConnection(h, searchId, userId, write) ==
  LET c == Len(h.conn) + 1
  IN [SSEConnection(h, searchId, userId, write) EXCEPT
        !.connections = MapAdd(@, searchId, c),
        !.userConnections = MapAdd(@, userId, c)]

\* cleanupStaleConnections: the connections it collects.
staleConnections(h) ==
  {c \in Registered(h.connections) :
     now - h.conn[c].lastActivity > connectionTimeout}

\* SSEManager.cleanupStaleConnections
cleanupStaleConnections(h) == removeEach(h, staleConnections(h))

\* connection.close() for every registered connection (cleanup).
RECURSIVE closeEach(_, _)
closeEach(h, cs) ==
  IF cs = {} THEN h
  ELSE LET c == CHOOSE x \in cs : TRUE
       IN closeEach(close(h, c), cs \ {c})

\* A shutdown that forgets the connections without closing them.
cleanupClearsOnly(h) ==
  [h EXCEPT !.connections = EmptyMap, !.userConnections = EmptyMap]

\* SSEManager.cleanup, past clearInterval(this.cleanupInterval): every
\* registered connection is closed, then both maps are cleared.
cleanup(h) ==
  [closeEach(h, Registered(h.connections)) EXCEPT
     !.connections = EmptyMap, !.userConnections = EmptyMap]

SetHub(h) ==
  /\ conn' = h.conn
  /\ response' = h.response
  /\ connections' = h.connections
  /\ userConnections' = h.userConnections

\* What a step of the orchestrator does to the hub: every call of
\* sseManager.broadcastToSearch it makes is carried out, in order.
Relay ==
  /\ SetHub(deliver(Hub, SubSeq(broadcasts', Len(broadcasts) + 1,
                                Len(broadcasts'))))
  /\ UNCHANGED <<maxConnections, cleanupInterval, now, thrown>>
  /\ UNCHANGED decoderVars

NoError == ""
CapacityExceeded == "Maximum SSE connections exceeded"

\* The options.maxConnections || 1000 of the singleton, built without options.
DefaultMaxConnections == 1000

InitSearch ==
  /\ startPc = "idle"
  /\ startErr = ""
  /\ dbStatus = "NONE"
  /\ dbError = ""
  /\ dbTotal = <<>>
  /\ statusLog = <<>>
  /\ active = FALSE
  /\ sequence = 0
  /\ upstream = "closed"
  /\ buffer = <<>>
  /\ frames = <<>>
  /\ tasks = <<>>
  /\ persisted = <<>>
  /\ failed = {}
  /\ broadcasts = <<>>
  /\ stopCalls = 0

\* new SSEManager(options)
InitManager(options) ==
  /\ conn = <<>>
  /\ response = <<>>
  /\ connections = EmptyMap
  /\ userConnections = EmptyMap
  /\ maxConnections = options
  /\ cleanupInterval = TRUE
  /\ now = 0
  /\ thrown = NoError

\* processIRAStream: let buffer = '', before any callback has run.
InitDecoder ==
  /\ wire = <<>>
  /\ chunkBuffer = <<>>
  /\ decoded = <<>>
  /\ bodyEnded = FALSE

\* The service with the singleton of getSSeManager().
Init == InitSearch /\ InitManager(DefaultMaxConnections) /\ InitDecoder

\* A manager built with a small maxConnections option, nothing searched.
InitHub ==
  /\ InitSearch
  /\ \E options \in 1..MaxCeiling : InitManager(options)
  /\ InitDecoder

streamVars == <<active, sequence, upstream, buffer, frames, tasks, persisted,
                failed, stopCalls>>

\* prisma.searchQuery.update({ data: { metadata: { status, ... } } })
writeStatus(status, error, total) ==
  /\ dbStatus' = status
  /\ dbError' = error
  /\ dbTotal' = total
  /\ statusLog' = Append(statusLog, status)

noWrite == UNCHANGED <<dbStatus, dbError, dbTotal, statusLog>>

\* searchService.performStreamingSearch: the row is created with status
\* INITIATED, then startStreamSearch is called and suspends on its first
\* update.
PerformStreamingSearchCore ==
  /\ startPc = "idle"
  /\ startPc' = "update"
  /\ writeStatus("INITIATED", "", <<>>)
  /\ UNCHANGED <<startErr, broadcasts>>
  /\ UNCHANGED streamVars

PerformStreamingSearch == PerformStreamingSearchCore /\ Relay

\* startStreamSearch, after `await prisma.searchQuery.update` (PROCESSING).
StartUpdatedCore(ok) ==
  /\ startPc = "update"
  /\ IF ok
       THEN /\ writeStatus("PROCESSING", "", <<>>)
            /\ broadcasts' = Append(broadcasts,
                 Broadcast("status", "PROCESSING", "Creating IRA thread...", <<>>, 0))
            /\ startPc' = "thread"
            /\ UNCHANGED startErr
       ELSE /\ noWrite
            /\ startPc' = "catch"
            /\ startErr' = "update failed"
            /\ UNCHANGED broadcasts
  /\ UNCHANGED streamVars

StartUpdated(ok) == StartUpdatedCore(ok) /\ Relay

\* A thread failure that is recorded but does not leave the try block.
ThreadCreatedFallsThrough(ok) ==
  /\ startPc = "thread"
  /\ startPc' = "stream"
  /\ startErr' = IF ok THEN startErr ELSE "Failed to create IRA thread"
  /\ UNCHANGED <<dbStatus, dbError, dbTotal, statusLog, broadcasts>>
  /\ UNCHANGED <<active, sequence, upstream, buffer, frames, tasks, persisted,
                 failed, stopCalls>>
  /\ Relay

\* startStreamSearch, after `await this.iraService.createThread`.
ThreadCreatedCore(ok) ==
  /\ startPc = "thread"
  /\ IF ok
       THEN /\ broadcasts' = Append(broadcasts,
                 Broadcast("status", "PROCESSING",
                           "Thread created, starting analysis...", <<>>, 0))
            /\ startPc' = "stream"
            /\ UNCHANGED startErr
       ELSE /\ startPc' = "catch"
            /\ startErr' = "Failed to create IRA thread"
            /\ UNCHANGED broadcasts
  /\ noWrite
  /\ UNCHANGED streamVars

ThreadCreated(ok) == ThreadCreatedCore(ok) /\ Relay

\* startStreamSearch, after `await this.iraService.startStream`: on success
\* activeStreams.set, processIRAStream registers the callbacks, and the
\* result is returned.
StreamStartedCore(ok) ==
  /\ startPc = "stream"
  /\ IF ok
       THEN /\ active' = TRUE
            /\ sequence' = 0
            /\ upstream' = "open"
            /\ startPc' = "returned"
            /\ UNCHANGED startErr
       ELSE /\ startPc' = "catch"
            /\ startErr' = "Failed to start IRA stream"
            /\ UNCHANGED <<active, sequence, upstream>>
  /\ noWrite
  /\ UNCHANGED <<buffer, frames, tasks, persisted, failed, stopCalls, broadcasts>>

StreamStarted(ok) == StreamStartedCore(ok) /\ Relay

\* startStreamSearch's catch block, after `await prisma.searchQuery.update`
\* (FAILED): broadcast the error and rethrow; if the update itself failed,
\* its error is thrown instead and nothing is broadcast.
StartFailedCore(ok) ==
  /\ startPc = "catch"
  /\ startPc' = "rejected"
  /\ IF ok
       THEN /\ writeStatus("FAILED", startErr, <<>>)
            /\ broadcasts' = Append(broadcasts,
                 Broadcast("error",
                           IF startErr = "update failed"
                             THEN "STREAM_ERROR" ELSE "IRA_SERVICE_ERROR",
                           startErr, <<>>, 0))
       ELSE /\ noWrite
            /\ UNCHANGED broadcasts
  /\ UNCHANGED startErr
  /\ UNCHANGED streamVars

StartFailed(ok) == StartFailedCore(ok) /\ Relay

startVars == <<startPc, startErr>>

Range(f) == {f[i] : i \in DOMAIN f}

\* Sequences over S of length lo..hi.
SeqsUpTo(S, lo, hi) == UNION {[1..n -> S] : n \in lo..hi}

\* The 'data' callback, up to its first suspension.  The chunk terminates
\* the frames `events` (the buffered frame first, if there is one) and
\* leaves `rest` unterminated in the buffer (buffer = events.pop()).
OnDataCore(fresh, rest) ==
  /\ upstream = "open"
  /\ Len(buffer) + Len(fresh) <= MaxChunkFrames
  /\ LET events == buffer \o fresh
         r == runFrames(events, sequence)
     IN /\ Len(events) > 0
        /\ sequence' = r.seq
        /\ broadcasts' = broadcasts \o r.bc
        /\ tasks' = tasks \o afterFrames("data", r)
  /\ buffer' = rest
  /\ frames' = frames \o fresh \o rest
  /\ noWrite
  /\ UNCHANGED <<startVars, active, upstream, persisted, failed, stopCalls>>

OnData(fresh, rest) == OnDataCore(fresh, rest) /\ Relay

\* A chunk that terminates no frame: it only extends the buffer.
OnPartialDataCore(rest) ==
  /\ upstream = "open"
  /\ buffer = <<>>
  /\ buffer' = <<rest>>
  /\ frames' = Append(frames, rest)
  /\ noWrite
  /\ UNCHANGED <<startVars, active, sequence, upstream, tasks, persisted,
                 failed, broadcasts, stopCalls>>

OnPartialData(rest) == OnPartialDataCore(rest) /\ Relay

\* The 'end' callback, up to its first suspension: the frame left in the
\* buffer is processed, then completeSearch is called.
OnEndCore ==
  /\ upstream = "open"
  /\ upstream' = "ended"
  /\ LET r == runFrames(buffer, sequence)
     IN /\ sequence' = r.seq
        /\ broadcasts' = broadcasts \o r.bc
        /\ tasks' = tasks \o afterFrames("end", r)
  /\ noWrite
  /\ UNCHANGED <<startVars, active, buffer, frames, persisted, failed, stopCalls>>

OnEnd == OnEndCore /\ Relay

\* The 'error' callback, up to failSearch's suspension.
OnErrorCore ==
  /\ upstream = "open"
  /\ upstream' = "errored"
  /\ tasks' = Append(tasks, failSearch("error", "upstream error", sequence))
  /\ noWrite
  /\ UNCHANGED <<startVars, active, sequence, buffer, frames, persisted,
                 failed, broadcasts, stopCalls>>

OnError == OnErrorCore /\ Relay

\* stopStream(searchId), up to failSearch's suspension.
StopStreamCore ==
  /\ stopCalls < MaxStops
  /\ stopCalls' = stopCalls + 1
  /\ tasks' = IF active
                THEN Append(tasks, failSearch("stop", "Stream stopped by user",
                                              sequence))
                ELSE tasks
  /\ noWrite
  /\ UNCHANGED <<startVars, active, sequence, upstream, buffer, frames,
                 persisted, failed, broadcasts>>

StopStream == StopStreamCore /\ Relay

\* tasks with task i replaced by the tasks in `by` (none or one).
Continue(i, by) == SubSeq(tasks, 1, i - 1) \o by \o SubSeq(tasks, i + 1, Len(tasks))

\* A failed create() that ends the search: the callback drops its remaining
\* frames and calls failSearch.
CreateDoneAborts(i, ok) ==
  /\ tasks[i].pc = "create"
  /\ LET t == tasks[i]
         out == createOutcome(ok, t.cur[1])
         r == runFrames(t.rest, sequence)
     IN /\ persisted' = persisted \o out.rows
        /\ failed' = failed \cup out.failed
        /\ sequence' = IF ok THEN r.seq ELSE sequence
        /\ broadcasts' = IF ok THEN broadcasts \o out.bc \o r.bc ELSE broadcasts
        /\ tasks' = IF ok THEN Continue(i, afterFrames(t.kind, r))
                         ELSE Continue(i, <<failSearch(t.kind, "create failed",
                                                       sequence)>>)
  /\ noWrite
  /\ UNCHANGED <<startVars, active, upstream, buffer, frames, stopCalls>>
  /\ Relay

\* processStreamEvent after `await prisma.searchResult.create`, and the
\* callback that called it up to its next suspension.
CreateDoneCore(i, ok) ==
  /\ tasks[i].pc = "create"
  /\ LET t == tasks[i]
         out == createOutcome(ok, t.cur[1])
         r == runFrames(t.rest, sequence)
     IN /\ persisted' = persisted \o out.rows
        /\ failed' = failed \cup out.failed
        /\ sequence' = r.seq
        /\ broadcasts' = broadcasts \o out.bc \o r.bc
        /\ tasks' = Continue(i, afterFrames(t.kind, r))
  /\ noWrite
  /\ UNCHANGED <<startVars, active, upstream, buffer, frames, stopCalls>>

CreateDone(i, ok) == CreateDoneCore(i, ok) /\ Relay

\* A completeSearch whose catch block only logs.
CompleteDoneSwallows(i, ok) ==
  /\ tasks[i].pc = "complete"
  /\ IF ok
       THEN /\ writeStatus("COMPLETED", "", <<tasks[i].total>>)
            /\ broadcasts' = Append(broadcasts,
                 Broadcast("complete", "", "", <<>>, sequence))
            /\ active' = FALSE
       ELSE /\ noWrite
            /\ UNCHANGED <<broadcasts, active>>
  /\ tasks' = Continue(i, <<>>)
  /\ UNCHANGED <<startVars, sequence, upstream, buffer, frames, persisted,
                 failed, stopCalls>>
  /\ Relay

\* A completion that leaves the search in activeStreams.
CompleteDoneKeepsActive(i, ok) ==
  /\ tasks[i].pc = "complete"
  /\ ok
  /\ writeStatus("COMPLETED", "", <<tasks[i].total>>)
  /\ broadcasts' = Append(broadcasts,
       Broadcast("complete", "", "", <<>>, sequence))
  /\ tasks' = Continue(i, <<>>)
  /\ UNCHANGED <<startVars, active, sequence, upstream, buffer, frames,
                 persisted, failed, stopCalls>>
  /\ Relay

\* completeSearch after `await prisma.searchQuery.update` (COMPLETED): the
\* 'complete' broadcast and activeStreams.delete, or failSearch from the
\* catch block when the update failed.
CompleteDoneCore(i, ok) ==
  /\ tasks[i].pc = "complete"
  /\ IF ok
       THEN /\ writeStatus("COMPLETED", "", <<tasks[i].total>>)
            /\ broadcasts' = Append(broadcasts,
                 Broadcast("complete", "", "", <<>>, sequence))
            /\ active' = FALSE
            /\ tasks' = Continue(i, <<>>)
       ELSE /\ noWrite
            /\ tasks' = Continue(i, <<failSearch(tasks[i].kind, "update failed",
                                                 sequence)>>)
            /\ UNCHANGED <<broadcasts, active>>
  /\ UNCHANGED <<startVars, sequence, upstream, buffer, frames, persisted,
                 failed, stopCalls>>

CompleteDone(i, ok) == CompleteDoneCore(i, ok) /\ Relay

\* failSearch after `await prisma.searchQuery.update` (FAILED): the 'error'
\* broadcast and activeStreams.delete, or only the catch block's log when
\* the update failed.
FailDoneCore(i, ok) ==
  /\ tasks[i].pc = "fail"
  /\ IF ok
       THEN /\ writeStatus("FAILED", tasks[i].msg, <<tasks[i].total>>)
            /\ broadcasts' = Append(broadcasts,
                 Broadcast("error", "SEARCH_FAILED", tasks[i].msg, <<>>, 0))
            /\ active' = FALSE
       ELSE /\ noWrite
            /\ UNCHANGED <<broadcasts, active>>
  /\ tasks' = Continue(i, <<>>)
  /\ UNCHANGED <<startVars, sequence, upstream, buffer, frames, persisted,
                 failed, stopCalls>>

FailDone(i, ok) == FailDoneCore(i, ok) /\ Relay

(***************************************************************************)
(* The hub's operations.                                                   *)
(***************************************************************************)
\* sseManager.addConnection(searchId, userId, response), called by the
\* route GET /stream/:searchId.
AddConnection(searchId, userId, write) ==
  /\ IF atCeiling(Hub)
       THEN /\ thrown' = CapacityExceeded
            /\ UNCHANGED <<conn, response, connections, userConnections>>
       ELSE /\ Len(conn) < MaxAttach
            /\ SetHub(addConnection(Hub, searchId, userId, write))
            /\ thrown' = NoError
  /\ UNCHANGED <<maxConnections, cleanupInterval, now>>
  /\ UNCHANGED <<orchestratorVars, decoderVars>>

\* A detach that ends the search of the connection.
RemoveConnectionStops(c) ==
  /\ SetHub(removeConnection(Hub, c))
  /\ thrown' = NoError
  /\ writeStatus("FAILED", "No subscribers", <<sequence>>)
  /\ active' = FALSE
  /\ UNCHANGED <<maxConnections, cleanupInterval, now>>
  /\ UNCHANGED <<startVars, sequence, upstream, buffer, frames, tasks,
                 persisted, failed, broadcasts, stopCalls>>
  /\ UNCHANGED decoderVars

\* sseManager.removeConnection(connection), called by the route when the
\* client cancels, for a connection object it holds.
RemoveConnection(c) ==
  /\ SetHub(removeConnection(Hub, c))
  /\ thrown' = NoError
  /\ UNCHANGED <<maxConnections, cleanupInterval, now>>
  /\ UNCHANGED <<orchestratorVars, decoderVars>>

\* The heartbeat timer of connection c fires.
Heartbeat(c) ==
  /\ conn[c].heartbeatInterval
  /\ IF conn[c].connected
       THEN /\ response[c].write = "ok" =>
                 Len(response[c].written) < MaxWritten
            /\ SetHub(sendEvent(Hub, c, heartbeatEvent).hub)
       ELSE SetHub([Hub EXCEPT !.conn[c].heartbeatInterval = FALSE])
  /\ UNCHANGED <<maxConnections, cleanupInterval, now, thrown>>
  /\ UNCHANGED <<orchestratorVars, decoderVars>>

\* sseManager.broadcastToSearch(searchId, eventType, data, eventId), called
\* from outside the orchestrator.
BroadcastToSearch(searchId, event) ==
  /\ \A c \in Registered(connections) :
       Len(response[c].written) < MaxWritten
  /\ LET r == broadcastToSearch(Hub, searchId, event)
     IN /\ SetHub(r.hub)
        /\ thrown' = NoError
  /\ UNCHANGED <<maxConnections, cleanupInterval, now>>
  /\ UNCHANGED <<orchestratorVars, decoderVars>>

\* The client side of a live connection goes away: the transport's write
\* throws from now on.
TransportBreaks(c) ==
  /\ conn[c].connected
  /\ response[c].write = "ok"
  /\ response' = [response EXCEPT ![c].write = "throws"]
  /\ UNCHANGED <<conn, connections, userConnections, maxConnections,
                 cleanupInterval, now, thrown>>
  /\ UNCHANGED <<orchestratorVars, decoderVars>>

\* The manager's sweep timer fires: cleanupStaleConnections().
CleanupStaleConnections ==
  /\ cleanupInterval
  /\ SetHub(cleanupStaleConnections(Hub))
  /\ UNCHANGED <<maxConnections, cleanupInterval, now, thrown>>
  /\ UNCHANGED <<orchestratorVars, decoderVars>>

\* sseManager.cleanup(), on process exit.
Cleanup ==
  /\ cleanupInterval' = FALSE
  /\ SetHub(cleanup(Hub))
  /\ thrown' = NoError
  /\ UNCHANGED <<maxConnections, now>>
  /\ UNCHANGED <<orchestratorVars, decoderVars>>

\* Time passes; it is followed while a connection is registered.
Tick ==
  /\ now < MaxTime
  /\ Registered(connections) # {}
  /\ now' = now + 1
  /\ UNCHANGED <<conn, response, connections, userConnections,
                 maxConnections, cleanupInterval, thrown>>
  /\ UNCHANGED <<orchestratorVars, decoderVars>>

\* An event as the callers outside the orchestrator broadcast it.
UpdateEvent == Broadcast("update", "", "processing", <<>>, 0)

\* The ids are interchangeable: the first connection is taken to be one of
\* FirstUser for FirstSearch.
FirstSearch == "s1"
FirstUser == "u1"

NextHub ==
  \/ \E searchId \in Searches : \E userId \in Users : \E write \in Writes :
       /\ conn = <<>> => searchId = FirstSearch /\ userId = FirstUser
       /\ AddConnection(searchId, userId, write)
  \/ \E c \in DOMAIN conn : RemoveConnection(c)
  \/ \E c \in DOMAIN conn : Heartbeat(c)
  \/ \E searchId \in Searches : BroadcastToSearch(searchId, UpdateEvent)
  \/ \E c \in DOMAIN conn : TransportBreaks(c)
  \/ CleanupStaleConnections
  \/ Cleanup
  \/ Tick

\* The hub on its own, driven through its API.
SpecHub == InitHub /\ [][NextHub]_vars

Next ==
  \/ PerformStreamingSearch
  \/ \E ok \in BOOLEAN : StartUpdated(ok)
  \/ \E ok \in BOOLEAN : ThreadCreated(ok)
  \/ \E ok \in BOOLEAN : StreamStarted(ok)
  \/ \E ok \in BOOLEAN : StartFailed(ok)
  \/ \E fresh \in SeqsUpTo(Frames, 0, MaxChunkFrames) :
       \E rest \in SeqsUpTo(Frames, 0, 1) :
         /\ Len(frames) + Len(fresh) + Len(rest) <= MaxFrames
         /\ OnData(fresh, rest)
  \/ \E rest \in Frames :
       /\ Len(frames) < MaxFrames
       /\ OnPartialData(rest)
  \/ OnEnd
  \/ OnError
  \/ StopStream
  \/ \E i \in DOMAIN tasks : \E ok \in BOOLEAN : CreateDone(i, ok)
  \/ \E i \in DOMAIN tasks : \E ok \in BOOLEAN : CompleteDone(i, ok)
  \/ \E i \in DOMAIN tasks : \E ok \in BOOLEAN : FailDone(i, ok)

Spec == Init /\ [][Next]_vars

(***************************************************************************)
(* Normal operation: the upstream session and stream open, every database  *)
(* write succeeds and nobody calls stopStream.  Upstream delivers up to    *)
(* three frames out of those of Scenario A (a metadata frame, a values     *)
(* frame whose last message is 'Looking into X', a values frame with       *)
(* final_result 'Report body'), in chunks of any size, and then closes or  *)
(* fails.                                                                  *)
(***************************************************************************)
ScenarioA == <<MetadataFrame, ThinkingFrame, ReportFrame>>

NextNormal ==
  \/ PerformStreamingSearch
  \/ StartUpdated(TRUE)
  \/ ThreadCreated(TRUE)
  \/ StreamStarted(TRUE)
  \/ \E fresh \in SeqsUpTo(Range(ScenarioA), 0, MaxChunkFrames) :
       \E rest \in SeqsUpTo(Range(ScenarioA), 0, 1) :
         /\ Len(frames) + Len(fresh) + Len(rest) <= Len(ScenarioA)
         /\ OnData(fresh, rest)
  \/ \E rest \in Range(ScenarioA) :
       /\ Len(frames) < Len(ScenarioA)
       /\ OnPartialData(rest)
  \/ OnEnd
  \/ OnError
  \/ \E i \in DOMAIN tasks : CreateDone(i, TRUE)
  \/ \E i \in DOMAIN tasks : CompleteDone(i, TRUE)
  \/ \E i \in DOMAIN tasks : FailDone(i, TRUE)

SpecNormal == Init /\ [][NextNormal]_vars

(***************************************************************************)
(* The relay: the search with subscribers.  Upstream delivers metadata     *)
(* frames and values frames with a message and then closes or fails; every *)
(* database write succeeds and nobody calls stopStream.  The owner of the  *)
(* search opens and cancels GET /stream/:searchId at any time, on          *)
(* transports whose write works.                                           *)
(***************************************************************************)
RelayFrames == {MetadataFrame, ThinkingFrame}

SearchNotFound == "Search not found"
StreamEndpointError == "Failed to establish stream connection"

\* A lookup that does not filter on the user.
getSearchByIdAnyUser(searchId, userId) ==
  searchId = SearchId /\ dbStatus # "NONE"

\* searchService.getSearchById: whether findFirst({ where: { id, userId } })
\* finds a row.  The only row is that of the search the model follows, which
\* exists once performStreamingSearch has created it, with UserId as userId.
getSearchById(searchId, userId) ==
  searchId = SearchId /\ dbStatus # "NONE" /\ userId = UserId

\* GET /stream/:searchId for the authenticated user userId; ok is whether
\* the database read of getSearchById worked.  When the row is found the
\* stream's start() calls sseManager.addConnection; otherwise the handler
\* answers 500 (read failed) or 404 (SearchNotFoundError).
GetStream(searchId, userId, write, ok) ==
  IF ~ok
    THEN /\ thrown' = StreamEndpointError
         /\ UNCHANGED <<conn, response, connections, userConnections,
                        maxConnections, cleanupInterval, now>>
         /\ UNCHANGED <<orchestratorVars, decoderVars>>
  ELSE IF ~getSearchById(searchId, userId)
    THEN /\ thrown' = SearchNotFound
         /\ UNCHANGED <<conn, response, connections, userConnections,
                        maxConnections, cleanupInterval, now>>
         /\ UNCHANGED <<orchestratorVars, decoderVars>>
  ELSE AddConnection(searchId, userId, write)

NextRelay ==
  \/ PerformStreamingSearch
  \/ StartUpdated(TRUE)
  \/ ThreadCreated(TRUE)
  \/ StreamStarted(TRUE)
  \/ \E fresh \in SeqsUpTo(RelayFrames, 0, MaxChunkFrames) :
       \E rest \in SeqsUpTo(RelayFrames, 0, 1) :
         /\ Len(frames) + Len(fresh) + Len(rest) <= MaxFrames
         /\ OnData(fresh, rest)
  \/ \E rest \in RelayFrames :
       /\ Len(frames) < MaxFrames
       /\ OnPartialData(rest)
  \/ OnEnd
  \/ OnError
  \/ \E i \in DOMAIN tasks : CreateDone(i, TRUE)
  \/ \E i \in DOMAIN tasks : CompleteDone(i, TRUE)
  \/ \E i \in DOMAIN tasks : FailDone(i, TRUE)
  \/ \E searchId \in Searches : \E userId \in Users : \E ok \in BOOLEAN :
       GetStream(searchId, userId, "ok", ok)
  \/ \E c \in DOMAIN conn : RemoveConnection(c)

SpecRelay == Init /\ [][NextRelay]_vars

(***************************************************************************)
(* Frames without an event.  Upstream delivers, in chunks of any size,     *)
(* blocks that parseSSEData decodes to nothing (NoEvent), values frames    *)
(* that classify to nothing (EmptyValuesFrame), values frames on which the *)
(* classifier throws (NullMessageFrame) and values frames with a message   *)
(* (ThinkingFrame), and then closes or fails.  Every database write        *)
(* succeeds and nobody calls stopStream.                                   *)
(***************************************************************************)
SkipFrames == {NoEvent, EmptyValuesFrame, NullMessageFrame}

NextSkip ==
  \/ PerformStreamingSearch
  \/ StartUpdated(TRUE)
  \/ ThreadCreated(TRUE)
  \/ StreamStarted(TRUE)
  \/ \E fresh \in SeqsUpTo(SkipFrames \cup {ThinkingFrame}, 0, MaxChunkFrames) :
       \E rest \in SeqsUpTo(SkipFrames \cup {ThinkingFrame}, 0, 1) :
         /\ Len(frames) + Len(fresh) + Len(rest) <= MaxFrames + 1
         /\ OnData(fresh, rest)
  \/ \E rest \in SkipFrames \cup {ThinkingFrame} :
       /\ Len(frames) < MaxFrames + 1
       /\ OnPartialData(rest)
  \/ OnEnd
  \/ OnError
  \/ \E i \in DOMAIN tasks : CreateDone(i, TRUE)
  \/ \E i \in DOMAIN tasks : CompleteDone(i, TRUE)
  \/ \E i \in DOMAIN tasks : FailDone(i, TRUE)

SpecSkip == Init /\ [][NextSkip]_vars

(***************************************************************************)
(* The search with an audience.  Upstream delivers metadata frames and     *)
(* values frames with a message and then closes or fails; event writes may *)
(* fail.  Meanwhile users open GET /stream/:searchId on transports whose   *)
(* write works or throws, clients cancel, transports break, heartbeat      *)
(* timers fire, time passes and the sweep timer fires.                     *)
(***************************************************************************)
NextAudience ==
  \/ PerformStreamingSearch
  \/ StartUpdated(TRUE)
  \/ ThreadCreated(TRUE)
  \/ StreamStarted(TRUE)
  \/ \E fresh \in SeqsUpTo(RelayFrames, 0, MaxChunkFrames) :
       \E rest \in SeqsUpTo(RelayFrames, 0, 1) :
         /\ Len(frames) + Len(fresh) + Len(rest) <= MaxFrames
         /\ OnData(fresh, rest)
  \/ \E rest \in RelayFrames :
       /\ Len(frames) < MaxFrames
       /\ OnPartialData(rest)
  \/ OnEnd
  \/ OnError
  \/ \E i \in DOMAIN tasks : \E ok \in BOOLEAN : CreateDone(i, ok)
  \/ \E i \in DOMAIN tasks : CompleteDone(i, TRUE)
  \/ \E i \in DOMAIN tasks : FailDone(i, TRUE)
  \/ \E write \in {"ok", "throws"} :
       /\ Len(conn) < MaxAudience
       /\ GetStream(SearchId, UserId, write, TRUE)
  \/ \E c \in DOMAIN conn : RemoveConnection(c)
  \/ \E c \in DOMAIN conn : Heartbeat(c)
  \/ \E c \in DOMAIN conn : TransportBreaks(c)
  \/ CleanupStaleConnections
  \/ Tick

SpecAudience == Init /\ [][NextAudience]_vars

\* The same search on its own: what the service does to its own state and
\* to the database with the same upstream frames and write outcomes, the
\* hub left out.
NextUnobserved ==
  \/ PerformStreamingSearchCore
  \/ StartUpdatedCore(TRUE)
  \/ ThreadCreatedCore(TRUE)
  \/ StreamStartedCore(TRUE)
  \/ \E fresh \in SeqsUpTo(RelayFrames, 0, MaxChunkFrames) :
       \E rest \in SeqsUpTo(RelayFrames, 0, 1) :
         /\ Len(frames) + Len(fresh) + Len(rest) <= MaxFrames
         /\ OnDataCore(fresh, rest)
  \/ \E rest \in RelayFrames :
       /\ Len(frames) < MaxFrames
       /\ OnPartialDataCore(rest)
  \/ OnEndCore
  \/ OnErrorCore
  \/ \E i \in DOMAIN tasks : \E ok \in BOOLEAN : CreateDoneCore(i, ok)
  \/ \E i \in DOMAIN tasks : CompleteDoneCore(i, TRUE)
  \/ \E i \in DOMAIN tasks : FailDoneCore(i, TRUE)

(***************************************************************************)
(* The upstream body, byte by byte.  The body is a Node stream that hands  *)
(* Buffer chunks to the 'data' callback, which appends chunk.toString() to *)
(* its buffer, splits the buffer at blank lines and keeps the last piece.  *)
(* Bytes: a line feed, an ASCII letter, and the two bytes C3 A9 of a       *)
(* character outside ASCII.  Characters: the line feed, the letter, that   *)
(* character, and U+FFFD, which Buffer.toString puts in the place of every *)
(* byte that is not part of a complete UTF-8 sequence within the chunk.    *)
(***************************************************************************)
Bytes == {"0A", "61", "C3", "A9"}
LF == "LF"
Replacement == "U+FFFD"

\* chunk.toString(): the UTF-8 decoding of one Buffer.
RECURSIVE toString(_)
toString(bytes) ==
  IF bytes = <<>> THEN <<>>
  ELSE IF Head(bytes) = "0A" THEN <<LF>> \o toString(Tail(bytes))
  ELSE IF Head(bytes) = "61" THEN <<"a">> \o toString(Tail(bytes))
  ELSE IF Head(bytes) = "C3" /\ Len(bytes) > 1 /\ bytes[2] = "A9"
    THEN <<"e-acute">> \o toString(Tail(Tail(bytes)))
  ELSE <<Replacement>> \o toString(Tail(bytes))

\* text.split('\n\n'), the piece in progress being cur.
RECURSIVE splitFrom(_, _)
splitFrom(text, cur) ==
  IF text = <<>> THEN <<cur>>
  ELSE IF Len(text) > 1 /\ text[1] = LF /\ text[2] = LF
    THEN <<cur>> \o splitFrom(SubSeq(text, 3, Len(text)), <<>>)
  ELSE splitFrom(Tail(text), Append(cur, Head(text)))

split(text) == splitFrom(text, <<>>)

\* text.trim(): line feeds are the only white space on the wire.
RECURSIVE trimStart(_)
trimStart(text) ==
  IF text # <<>> /\ Head(text) = LF THEN trimStart(Tail(text)) ELSE text

RECURSIVE trimEnd(_)
trimEnd(text) ==
  IF text # <<>> /\ text[Len(text)] = LF
    THEN trimEnd(SubSeq(text, 1, Len(text) - 1))
    ELSE text

trim(text) == trimEnd(trimStart(text))

\* for (const eventData of events) if (eventData.trim()) processStreamEvent(
\* searchId, eventData.trim(), ...): the blocks that are handed over.
RECURSIVE handedOver(_)
handedOver(events) ==
  IF events = <<>> THEN <<>>
  ELSE (IF trim(Head(events)) # <<>> THEN <<trim(Head(events))>> ELSE <<>>)
         \o handedOver(Tail(events))

Front(s) == SubSeq(s, 1, Len(s) - 1)
Last(s) == s[Len(s)]

\* The 'data' callback, as far as the buffer goes.
BodyData(chunk) ==
  /\ ~bodyEnded
  /\ Len(wire) + Len(chunk) <= MaxBytes
  /\ LET events == split(chunkBuffer \o toString(chunk))
     IN /\ chunkBuffer' = Last(events)
        /\ decoded' = decoded \o handedOver(Front(events))
  /\ wire' = wire \o chunk
  /\ UNCHANGED bodyEnded
  /\ UNCHANGED <<orchestratorVars, hubVars>>

\* The 'end' callback, as far as the buffer goes.
BodyEnd ==
  /\ ~bodyEnded
  /\ bodyEnded' = TRUE
  /\ decoded' = decoded \o handedOver(<<chunkBuffer>>)
  /\ UNCHANGED <<wire, chunkBuffer>>
  /\ UNCHANGED <<orchestratorVars, hubVars>>

NextDecoder ==
  \/ \E chunk \in SeqsUpTo(Bytes, 1, MaxBytes) : BodyData(chunk)
  \/ BodyEnd

\* One upstream body of up to MaxBytes bytes, delivered in chunks of any
\* size and then closed.
SpecDecoder == Init /\ [][NextDecoder]_vars

(***************************************************************************)
(* The classifier's inputs.  One search whose upstream delivers frames of  *)
(* every shape the classifier tells apart: values frames with a message    *)
(* list of up to two messages and with or without a final_result, messages *)
(* frames whose data is a list of up to two messages or no list at all,    *)
(* a metadata frame, a frame of another type and a block with no event.    *)
(***************************************************************************)
ToolCalls == <<"search">>

ClassifierMessages ==
  {NullMessage,
   Message("", <<>>),
   Message("", <<ToolCalls>>),
   Message("Looking into X", <<>>),
   Message("Looking into X", <<<<>>>>),
   Message("Calling search", <<ToolCalls>>),
   TypedMessage("tool", "Found Y", <<>>)}

MessageLists == SeqsUpTo(ClassifierMessages, 0, MaxMessages)

ValuesFrame(messages, final_result) ==
  [type |-> "values",
   data |-> [kind |-> "object", messages |-> messages,
             final_result |-> final_result, elems |-> <<>>,
             json |-> "{values}"]]

MessagesFrame(elems) ==
  [type |-> "messages",
   data |-> [kind |-> "array", messages |-> <<>>, final_result |-> "",
             elems |-> elems, json |-> "[messages]"]]

\* A messages frame whose data is an object, not a list.
NoListFrame ==
  [type |-> "messages",
   data |-> [kind |-> "object", messages |-> <<>>, final_result |-> "",
             elems |-> <<>>, json |-> "{}"]]

\* A frame of a type the classifier has no case for.
UpdatesFrame ==
  [type |-> "updates",
   data |-> [kind |-> "object", messages |-> <<>>, final_result |-> "",
             elems |-> <<>>, json |-> "{step}"]]

\* A block with a data: line and no event: line.
UntypedFrame ==
  [type |-> "undefined",
   data |-> [kind |-> "object", messages |-> <<>>, final_result |-> "",
             elems |-> <<>>, json |-> "{note}"]]

\* A block whose data: line is not JSON: the data is the text of the line.
TextFrame ==
  [type |-> "custom",
   data |-> [kind |-> "string", messages |-> <<>>, final_result |-> "",
             elems |-> <<>>, json |-> "\"progress\""]]

\* A block whose data: line holds the JSON number 0.
ZeroFrame(type) ==
  [type |-> type,
   data |-> [kind |-> "falsy", messages |-> <<>>, final_result |-> "",
             elems |-> <<>>, json |-> "0"]]

\* A block with an event: line and no data: line.
DataLessFrame(type) == [type |-> type, data |-> NoData]

ClassifierFrames ==
  {ValuesFrame(ms, fr) : ms \in MessageLists, fr \in {"", "Report body"}}
    \cup {MessagesFrame(ms) : ms \in MessageLists}
    \cup {NoListFrame, UpdatesFrame, MetadataFrame, NoEvent, UntypedFrame,
          TextFrame}
    \cup {ZeroFrame(type) : type \in {"custom", "metadata"}}
    \cup {DataLessFrame(type) : type \in {"custom", "metadata"}}

NextClassifier ==
  \/ PerformStreamingSearch
  \/ StartUpdated(TRUE)
  \/ ThreadCreated(TRUE)
  \/ StreamStarted(TRUE)
  \/ \E frame \in ClassifierFrames :
       /\ Len(frames) < MaxClassified
       /\ OnData(<<frame>>, <<>>)
  \/ OnEnd
  \/ \E i \in DOMAIN tasks : CreateDone(i, TRUE)
  \/ \E i \in DOMAIN tasks : CompleteDone(i, TRUE)

SpecClassifier == Init /\ [][NextClassifier]_vars

(***************************************************************************)
(* The downstream wire format.  A text is a sequence of lines (the pieces  *)
(* between line feeds); a line is its field prefix and the tokens after    *)
(* it: a space, a word, or a JSON text.  JSON.stringify gives a JSON text  *)
(* for every value but undefined, for which it gives undefined, which the  *)
(* template literal writes as the word undefined.                          *)
(***************************************************************************)
Space == [space |-> TRUE]
Word(w) == [word |-> w]
JSONText(value) == [json |-> value]
Undefined == [undefined |-> TRUE]
EmptyLine == [prefix |-> "", rest |-> <<>>]
Line(prefix, rest) == [prefix |-> prefix, rest |-> rest]

\* `${JSON.stringify(data)}`
stringify(data) == IF data = Undefined THEN Word("undefined") ELSE JSONText(data)

\* The data argument of sendEvent for an event of the model.
dataOf(event) ==
  [type |-> event.type, content |-> event.content, total |-> event.total]

\* A text with an id: line whether or not an id is given.
eventDataWithId(type, data, id) ==
  <<Line("id:", <<Space>> \o (IF id = <<>> THEN <<Word("null")>>
                                           ELSE <<Word(id[1])>>)),
    Line("event:", <<Space, Word(type)>>),
    Line("data:", <<Space, stringify(data)>>),
    EmptyLine, EmptyLine>>

\* sendEvent's eventData: `id: ${id}\n` if (id), `event: ${type}\n`,
\* `data: ${JSON.stringify(data)}\n\n`.  The text ends with two line feeds:
\* two empty pieces follow the data line.
eventData(type, data, id) ==
  (IF id # <<>> THEN <<Line("id:", <<Space, Word(id[1])>>)>> ELSE <<>>)
    \o <<Line("event:", <<Space, Word(type)>>),
         Line("data:", <<Space, stringify(data)>>),
         EmptyLine, EmptyLine>>

\* tokens.trim()
RECURSIVE trimTokensStart(_)
trimTokensStart(tokens) ==
  IF tokens # <<>> /\ Head(tokens) = Space
    THEN trimTokensStart(Tail(tokens)) ELSE tokens

RECURSIVE trimTokensEnd(_)
trimTokensEnd(tokens) ==
  IF tokens # <<>> /\ tokens[Len(tokens)] = Space
    THEN trimTokensEnd(SubSeq(tokens, 1, Len(tokens) - 1)) ELSE tokens

trimTokens(tokens) == trimTokensEnd(trimTokensStart(tokens))

\* sseData.trim().split('\n'): the lines without the blank ones at both ends.
RECURSIVE trimLinesStart(_)
trimLinesStart(lines) ==
  IF lines # <<>> /\ Head(lines).prefix = "" /\ trimTokens(Head(lines).rest) = <<>>
    THEN trimLinesStart(Tail(lines)) ELSE lines

RECURSIVE trimLinesEnd(_)
trimLinesEnd(lines) ==
  IF lines # <<>> /\ lines[Len(lines)].prefix = ""
     /\ trimTokens(lines[Len(lines)].rest) = <<>>
    THEN trimLinesEnd(SubSeq(lines, 1, Len(lines) - 1)) ELSE lines

trimLines(lines) == trimLinesEnd(trimLinesStart(lines))

\* try { event.data = JSON.parse(dataContent) } catch { event.data =
\* dataContent }: the value of a JSON text, the text itself otherwise.
parseData(dataContent) ==
  IF Len(dataContent) = 1 /\ DOMAIN dataContent[1] = {"json"}
    THEN dataContent[1].json
    ELSE dataContent

NoFields == [type |-> <<>>, data |-> <<>>, id |-> <<>>]

\* The loop of parseSSEData over the lines: each property of the event is
\* <<>> while it is not set and <<value>> once it is.
RECURSIVE parseLines(_, _)
parseLines(lines, event) ==
  IF lines = <<>> THEN event
  ELSE LET line == Head(lines)
           content == trimTokens(line.rest)
       IN parseLines(Tail(lines),
            CASE line.prefix = "event:" -> [event EXCEPT !.type = <<content>>]
              [] line.prefix = "data:" ->
                   IF content # <<>>
                     THEN [event EXCEPT !.data = <<parseData(content)>>]
                     ELSE event
              [] line.prefix = "id:" -> [event EXCEPT !.id = <<content>>]
              [] OTHER -> event)

\* IRAService.parseSSEData: the event, or NoFields for null (no property set).
parseSSEData(sseData) == parseLines(trimLines(sseData), NoFields)

(***************************************************************************)
(* The search under fair scheduling.  Every write succeeds; the upstream   *)
(* eventually ends or errors; a callback whose write has returned is       *)
(* eventually run (the event loop runs every callback that is ready).      *)
(* stopStream may be called at any time.                                   *)
(***************************************************************************)
UpstreamOver == OnEnd \/ OnError
CreateReturns == \E i \in DOMAIN tasks : CreateDone(i, TRUE)
CompleteReturns == \E i \in DOMAIN tasks : CompleteDone(i, TRUE)
FailReturns == \E i \in DOMAIN tasks : FailDone(i, TRUE)

NextFair ==
  \/ PerformStreamingSearch
  \/ StartUpdated(TRUE)
  \/ ThreadCreated(TRUE)
  \/ StreamStarted(TRUE)
  \/ \E fresh \in SeqsUpTo(RelayFrames, 0, MaxChunkFrames) :
       \E rest \in SeqsUpTo(RelayFrames, 0, 1) :
         /\ Len(frames) + Len(fresh) + Len(rest) <= MaxFrames
         /\ OnData(fresh, rest)
  \/ \E rest \in RelayFrames :
       /\ Len(frames) < MaxFrames
       /\ OnPartialData(rest)
  \/ StopStream
  \/ UpstreamOver
  \/ CreateReturns
  \/ CompleteReturns
  \/ FailReturns

SpecFair ==
  /\ Init
  /\ [][NextFair]_vars
  /\ WF_vars(UpstreamOver)
  /\ WF_vars(CreateReturns)
  /\ WF_vars(CompleteReturns)
  /\ WF_vars(FailReturns)

(***************************************************************************)
(* Properties.                                                             *)
(***************************************************************************)
IsEvent(b, eventType) == b.event = eventType
IsResult(b) == IsEvent(b, "result")
IsError(b) == IsEvent(b, "error")
Results == SelectSeq(broadcasts, IsResult)
Errors == SelectSeq(broadcasts, IsError)
Terminal == {"COMPLETED", "FAILED"}
ThreadError == "Failed to create IRA thread"
Pending(pc) == {i \in DOMAIN tasks : tasks[i].pc = pc}

\* C1: the sequence numbers of the persisted events, in persistence order,
\* are 1, 2, 3, ... (no duplicates, no gaps), and no METADATA event is
\* persisted.
C1_PersistedSequenceIsOneToN ==
  \A i \in DOMAIN persisted :
    persisted[i].sequence = i /\ persisted[i].type # "METADATA"

\* C2: the events of the search are persisted and broadcast in upstream
\* delivery order, which is the order of their sequence numbers, and no two
\* frames are in processing at the same time.
C2_DeliveryOrder ==
  /\ \A i, j \in DOMAIN persisted :
       i < j => persisted[i].sequence < persisted[j].sequence
  /\ \A i, j \in DOMAIN Results : i < j => Results[i].id[1] < Results[j].id[1]
  /\ Cardinality(Pending("create")) <= 1

StatusMoves ==
  {<<"NONE", "INITIATED">>, <<"INITIATED", "PROCESSING">>,
   <<"INITIATED", "FAILED">>, <<"PROCESSING", "COMPLETED">>,
   <<"PROCESSING", "FAILED">>}

StatusStep ==
  /\ dbStatus \in Terminal => dbStatus' = dbStatus
  /\ dbStatus' # dbStatus => <<dbStatus, dbStatus'>> \in StatusMoves

\* C3: the recorded status only moves INITIATED -> PROCESSING ->
\* COMPLETED or FAILED, or INITIATED -> FAILED, and a recorded COMPLETED or
\* FAILED is never changed again.
C3_TerminalStatusIsFinal == [][StatusStep]_vars

QuietStep ==
  dbStatus \in Terminal =>
  /\ sequence' = sequence
  /\ persisted' = persisted
  /\ Len(SelectSeq(broadcasts', IsResult)) = Len(Results)

\* C4: once COMPLETED or FAILED is recorded, the sequence counter is not
\* incremented and no result event is persisted or broadcast any more.
C4_NothingAfterTerminal == [][QuietStep]_vars

NoEvents == sequence = 0 /\ persisted = <<>> /\ Results = <<>>

C6_BroadcastAfterPersist ==
  \A i \in DOMAIN Results :
    Results[i].type # "METADATA" =>
      /\ \E j \in DOMAIN persisted :
           /\ persisted[j].sequence = Results[i].id[1]
           /\ persisted[j].type = Results[i].type
           /\ persisted[j].content = Results[i].content
      /\ Results[i].id[1] \notin failed

C6_Witness ==
  /\ failed # {}
  /\ \E i \in DOMAIN Results : Results[i].type # "METADATA"

\* The events suspended on their create().
InFlight == {tasks[i].cur[1].sequence : i \in Pending("create")}

\* C7: no two persisted events and no two broadcast events carry the same
\* sequence number, nor do two events in flight, whatever the interleaving
\* of the 'data' callbacks.
C7_SequenceNumbersUnique ==
  /\ \A i, j \in DOMAIN persisted :
       i # j => persisted[i].sequence # persisted[j].sequence
  /\ \A i, j \in DOMAIN Results : i # j => Results[i].id # Results[j].id
  /\ Cardinality(InFlight) = Cardinality(Pending("create"))
  /\ \A i \in DOMAIN persisted : persisted[i].sequence \notin InFlight

C7_Witness ==
  /\ Len(persisted) = 2
  /\ persisted[1].sequence > persisted[2].sequence
  /\ Len(Results) = 2

StopStep ==
  /\ \A i \in DOMAIN tasks :
       tasks[i].kind = "stop" /\ tasks' = Continue(i, <<>>) =>
         /\ dbStatus' = "FAILED"
         /\ dbError' = "Stream stopped by user"
         /\ dbTotal' = <<tasks[i].total>>
         /\ Len(SelectSeq(broadcasts', IsError)) = Len(Errors) + 1
         /\ ~active'
  /\ stopCalls' # stopCalls /\ ~active =>
       UNCHANGED <<dbStatus, dbError, dbTotal, statusLog, broadcasts, tasks>>

\* C8: a stopStream on an active search ends like an upstream error: FAILED
\* is recorded with 'Stream stopped by user' and the event count, one
\* 'error' signal is broadcast and the search leaves activeStreams; on a
\* search that is not active it writes and broadcasts nothing.
C8_StopIsFailure == [][StopStep]_vars

ScenarioADone == frames = ScenarioA /\ upstream = "ended" /\ tasks = <<>>

\* C9: after Scenario A the rows are THINKING with sequence 1 and REPORT
\* with sequence 2, the result broadcasts are METADATA without a sequence,
\* THINKING with 1 and REPORT with 2, and the status is COMPLETED with
\* totalResults = 2.
C9_ScenarioA ==
  ScenarioADone =>
    /\ persisted =
         <<[sequence |-> 1, type |-> "THINKING", content |-> "Looking into X"],
           [sequence |-> 2, type |-> "REPORT", content |-> "Report body"]>>
    /\ Results =
         <<Broadcast("result", "METADATA", "{run_id}", <<>>, 0),
           Broadcast("result", "THINKING", "Looking into X", <<1>>, 0),
           Broadcast("result", "REPORT", "Report body", <<2>>, 0)>>
    /\ dbStatus = "COMPLETED"
    /\ dbTotal = <<2>>

\* The frames the callbacks have processed: all but the unterminated one.
Processed == SubSeq(frames, 1, Len(frames) - Len(buffer))
IsClassified(frame) == ~Skipped(frame)
Classified == SelectSeq(Processed, IsClassified)

\* Scenario B: upstream failed after exactly one frame was classified to an
\* event, nobody called stopStream, and every callback has returned.
ScenarioBDone ==
  /\ upstream = "errored"
  /\ Len(Classified) = 1
  /\ stopCalls = 0
  /\ tasks = <<>>

IsTerminalSignal(b) == b.event \in {"complete", "error"}
TerminalSignals == SelectSeq(broadcasts, IsTerminalSignal)
IsMetadata(b) == b.type = "METADATA"

\* The frames handed to processStreamEvent so far: the unterminated one is
\* handed over by the 'end' callback only.
Consumed == IF upstream = "ended" THEN frames ELSE Processed

\* Upstream is over and every callback has returned.
Quiescent == upstream \in {"ended", "errored"} /\ tasks = <<>>

\* Every frame that classifies to an event got a sequence number; every
\* event but those whose create() failed was broadcast, and persisted
\* unless it is METADATA.
AllProcessed ==
  /\ sequence = Len(SelectSeq(Consumed, IsClassified))
  /\ failed \subseteq 1..sequence
  /\ {Results[i].id[1] : i \in DOMAIN Results} = (1..sequence) \ failed
  /\ {persisted[i].sequence : i \in DOMAIN persisted} =
       {Results[i].id[1] : i \in {j \in DOMAIN Results : ~IsMetadata(Results[j])}}

ContainedStep ==
  /\ failed' # failed =>
       /\ UNCHANGED <<dbStatus, dbError, dbTotal, statusLog, active, persisted>>
       /\ SelectSeq(broadcasts', IsTerminalSignal) = TerminalSignals
       /\ \A i \in DOMAIN tasks' : tasks'[i].pc = "fail" =>
            \E j \in DOMAIN tasks : tasks[j] = tasks'[i]
  /\ Quiescent' => AllProcessed'

\* C11: a failed create() of one event changes neither the recorded status
\* nor the active state, sends no terminal signal and starts no failSearch;
\* the frames after it are still classified, sequenced, persisted and
\* broadcast, so that once upstream is over and the callbacks have returned
\* every classified frame has its event.
C11_PersistFailureContained == [][ContainedStep]_vars

C11_Witness ==
  /\ Quiescent
  /\ dbStatus = "COMPLETED"
  /\ \E n \in failed : \E i \in DOMAIN persisted : persisted[i].sequence > n

IsComplete(b) == IsEvent(b, "complete")
Completes == SelectSeq(broadcasts, IsComplete)
UpdateError == "update failed"

\* Upstream closed, nobody called stopStream, every callback has returned.
NaturalEndDone == upstream = "ended" /\ stopCalls = 0 /\ tasks = <<>>

NaturalEndStep ==
  /\ \A i \in DOMAIN tasks :
       tasks[i].pc = "complete" /\ stopCalls = 0 =>
         /\ tasks' = Continue(i, <<>>) =>
              /\ dbStatus' = "COMPLETED"
              /\ broadcasts' = Append(broadcasts, Broadcast("complete", "", "",
                                                           <<>>, sequence))
              /\ ~active'
         /\ Len(tasks') = Len(tasks) /\ tasks'[i] # tasks[i] =>
              /\ tasks'[i] = failSearch("end", UpdateError, sequence)
              /\ UNCHANGED <<dbStatus, statusLog, broadcasts, active>>
  /\ NaturalEndDone' =>
       \/ /\ dbStatus' = "COMPLETED"
          /\ Len(SelectSeq(broadcasts', IsComplete)) = 1
          /\ SelectSeq(broadcasts', IsError) = <<>>
          /\ ~active'
       \/ /\ dbStatus' = "FAILED"
          /\ dbError' = UpdateError
          /\ Len(SelectSeq(broadcasts', IsError)) = 1
          /\ SelectSeq(broadcasts', IsComplete) = <<>>
          /\ ~active'
       \/ /\ dbStatus' = "PROCESSING"
          /\ SelectSeq(broadcasts', IsTerminalSignal) = <<>>
          /\ active'

C13_ReleasedAfterUpstreamOver ==
  Quiescent => ~active /\ TerminalSignals # <<>>

HasEvent(frame) == frame \notin SkipFrames
WithEvent(fs) == SelectSeq(fs, HasEvent)

\* The frames a step hands to processStreamEvent.
NewlyConsumed == SubSeq(Consumed', Len(Consumed) + 1, Len(Consumed'))

SkipStep ==
  /\ NewlyConsumed # <<>> /\ WithEvent(NewlyConsumed) = <<>> =>
       UNCHANGED <<sequence, persisted, broadcasts, dbStatus, dbError,
                   dbTotal, statusLog, active>>
  /\ Quiescent' =>
       /\ sequence' = Len(WithEvent(Consumed'))
       /\ Len(persisted') = sequence'
       /\ Len(SelectSeq(broadcasts', IsResult)) = sequence'
       /\ \A i \in DOMAIN persisted' : persisted'[i].type = "THINKING"

\* C14: a frame that decodes to no event, classifies to nothing or makes
\* the classifier throw takes no sequence number, is neither persisted nor
\* broadcast and changes no status; a step that only meets such frames
\* changes nothing of the search, and the frames with an event around them
\* are all sequenced, persisted and broadcast.
C14_SkippedFramesLeaveNoTrace == [][SkipStep]_vars

C14_Witness ==
  /\ frames = <<NoEvent, NullMessageFrame, ThinkingFrame>>
  /\ Quiescent
  /\ dbStatus = "COMPLETED"
  /\ sequence = 1
  /\ Len(persisted) = 1

(***************************************************************************)
(* Properties of the hub.                                                  *)
(***************************************************************************)
InSearch(h, searchId) ==
  IF searchId \in DOMAIN h.connections THEN h.connections[searchId] ELSE {}
Live(h, c) == h.conn[c].connected /\ h.response[c].write = "ok"
Filed(h, c) ==
  c \in Registered(h.connections) \/ c \in Registered(h.userConnections)

CeilingStep ==
  /\ totalConnections(connections') <= maxConnections'
  /\ atCeiling(Hub) =>
       /\ Len(conn') = Len(conn)
       /\ Registered(connections') \subseteq Registered(connections)
  /\ thrown' = CapacityExceeded /\ thrown # CapacityExceeded =>
       /\ atCeiling(Hub)
       /\ UNCHANGED <<conn, response, connections, userConnections>>

\* C15: the number of registered connections never exceeds maxConnections;
\* at the ceiling no step creates or registers a connection, and the
\* addConnection that throws 'Maximum SSE connections exceeded' is one made
\* at the ceiling and changes no connection, transport or index.
C15_CeilingHolds == [][CeilingStep]_vars

C15_Witness ==
  /\ maxConnections = 1
  /\ Len(conn) = MaxAttach
  /\ Registered(connections) = {MaxAttach}
  /\ thrown = CapacityExceeded

\* What broadcastToSearch(searchId, ...) does to connection c.
Delivered(searchId, c) ==
  LET r == broadcastToSearch(Hub, searchId, UpdateEvent)
  IN IF c \notin InSearch(Hub, searchId)
       THEN r.hub.conn[c] = conn[c] /\ r.hub.response[c] = response[c]
     ELSE IF Live(Hub, c)
       THEN /\ r.hub.response[c].written = Append(response[c].written, UpdateEvent)
            /\ r.hub.response[c].ended = response[c].ended
            /\ r.hub.conn[c].connected
            /\ r.hub.conn[c].heartbeatInterval = conn[c].heartbeatInterval
            /\ c \in InSearch(r.hub, searchId)
            /\ Filed(r.hub, c)
     ELSE /\ r.hub.response[c].written = response[c].written
          /\ ~r.hub.conn[c].connected
          /\ ~r.hub.conn[c].heartbeatInterval
          /\ ~Filed(r.hub, c)

IsolationStep ==
  /\ \A searchId \in Searches : \A c \in DOMAIN conn : Delivered(searchId, c)
  /\ \A c \in DOMAIN conn :
       ~Filed(Hub, c) /\ ~conn[c].connected =>
         /\ response'[c].written = response[c].written
         /\ ~conn'[c].connected
         /\ ~Filed([connections |-> connections',
                    userConnections |-> userConnections'], c)

\* C16: in a broadcast to a session every connection of the session whose
\* write works gets the event and stays registered, whatever happens to the
\* others; a connection whose write fails gets nothing, is marked
\* disconnected, loses its heartbeat timer and leaves both indexes; and a
\* connection that is disconnected and out of the indexes is never written
\* to again, by a broadcast or by a heartbeat.
C16_WriteFailureIsolated == [][IsolationStep]_vars

C16_Witness ==
  \E a, b \in DOMAIN conn :
    /\ conn[a].searchId = conn[b].searchId
    /\ Filed(Hub, a) /\ conn[a].connected
    /\ response[a].written = <<connectedEvent(conn[a].searchId), UpdateEvent>>
    /\ ~Filed(Hub, b) /\ ~conn[b].connected
    /\ response[b].write = "throws"
    /\ response[b].written = <<connectedEvent(conn[b].searchId)>>
    /\ response[b].ended = 0

\* C17: in every state broadcastToSearch returns the number of connections
\* of the session that are connected and whose write works, which is 0 for
\* a session without connections.
C17_BroadcastCount ==
  \A searchId \in Searches :
    broadcastToSearch(Hub, searchId, UpdateEvent).successCount =
      Cardinality({c \in InSearch(Hub, searchId) : Live(Hub, c)})

C17_Witness ==
  \E a, b \in DOMAIN conn :
    /\ a # b
    /\ {a, b} \subseteq InSearch(Hub, FirstSearch)
    /\ Live(Hub, a)
    /\ conn[b].connected /\ response[b].write = "throws"
    /\ broadcastToSearch(Hub, FirstSearch, UpdateEvent).successCount = 1
    /\ Len(response[a].written) > 1

\* C18: a connection that was written to and is marked disconnected (a
\* heartbeat or broadcast write failed, or it was closed) is in neither
\* index.
C18_FailedHeartbeatRemoves ==
  \A c \in DOMAIN conn :
    ~conn[c].connected /\ response[c].written # <<>> => ~Filed(Hub, c)

\* C20: removeConnection on a connection that was removed before changes
\* nothing, and no transport is ended more than once, however often and
\* after whatever else removeConnection is called.
C20_RemoveTwice ==
  \A c \in DOMAIN conn :
    /\ response[c].ended <= 1
    /\ removeConnection(removeConnection(Hub, c), c) = removeConnection(Hub, c)
    /\ ~Filed(Hub, c) /\ ~conn[c].connected => removeConnection(Hub, c) = Hub

C20_Witness ==
  \E c \in DOMAIN conn :
    /\ ~Filed(Hub, c)
    /\ response[c].ended = 1
    /\ response[c].written = <<connectedEvent(conn[c].searchId), disconnectEvent>>
    /\ ~conn[c].heartbeatInterval
    /\ Registered(connections) # {}

IsRelayed(e) == e.event \in {"status", "result", "complete", "error"}
OnlyGreeted(c) == SelectSeq(response[c].written, IsRelayed) = <<>>

LateStep ==
  \A c \in DOMAIN conn :
    dbStatus \in Terminal /\ OnlyGreeted(c) =>
      SelectSeq(response'[c].written, IsRelayed) = <<>>

\* C19: once COMPLETED or FAILED is recorded, a transport that has received
\* nothing but 'connected' and heartbeats, as that of a subscriber who
\* attached after the terminal status has, never receives a result event
\* or a 'complete' or 'error' signal of the search.
C19_LateSubscriberGetsNothing == [][LateStep]_vars

\* The transports a broadcast to searchId writes to or ends.
Touched(searchId) ==
  LET r == broadcastToSearch(Hub, searchId, UpdateEvent).hub
  IN {c \in DOMAIN conn : r.response[c] # response[c]}

IsConnected(e) == e.event = "connected"

OwnSessionStep ==
  /\ \A c \in DOMAIN conn :
       /\ c \in DOMAIN conn'
       /\ conn'[c].searchId = conn[c].searchId
       /\ conn'[c].userId = conn[c].userId
  /\ \A searchId \in DOMAIN connections : \A c \in connections[searchId] :
       conn[c].searchId = searchId
  /\ \A userId \in DOMAIN userConnections : \A c \in userConnections[userId] :
       conn[c].userId = userId
  /\ \A searchId \in Searches : \A c \in Touched(searchId) :
       conn[c].searchId = searchId /\ c \in InSearch(Hub, searchId)
  /\ \A c \in DOMAIN conn :
       \A i \in DOMAIN response[c].written :
         IsConnected(response[c].written[i]) =>
           response[c].written[i].content = conn[c].searchId

\* C21: the session and the identity of a connection never change; a
\* connection is filed under its own session and its own identity only; a
\* broadcast to a session writes to no transport but those of connections
\* attached to that session; and the 'connected' event a transport got
\* names the session of its connection.
C21_OwnSessionOnly == [][OwnSessionStep]_vars

C21_Witness ==
  \E a, b \in DOMAIN conn :
    /\ conn[a].searchId # conn[b].searchId
    /\ conn[a].userId = conn[b].userId
    /\ Filed(Hub, a) /\ Filed(Hub, b)
    /\ Live(Hub, a) /\ Live(Hub, b)
    /\ response[a].written = <<connectedEvent(conn[a].searchId), UpdateEvent>>
    /\ response[b].written = <<connectedEvent(conn[b].searchId)>>

\* Whether connection c is registered and idle for longer than the timeout.
Stale(c) ==
  c \in Registered(connections) /\ now - conn[c].lastActivity > connectionTimeout

\* C22: in every state cleanupStaleConnections takes out of both indexes
\* exactly the registered connections that are idle for longer than
\* connectionTimeout and ends the transport of each of them, and it leaves
\* every other connection, its transport and its registration as they are.
C22_SweepRemovesExactlyStale ==
  LET r == cleanupStaleConnections(Hub)
  IN \A c \in DOMAIN conn :
       IF Stale(c)
         THEN /\ ~Filed(r, c)
              /\ ~r.conn[c].connected
              /\ r.response[c].ended = response[c].ended + 1
         ELSE /\ r.conn[c] = conn[c]
              /\ r.response[c] = response[c]
              /\ Filed(r, c) = Filed(Hub, c)

\* What cleanup() does to connection c.
ShutDown(c) ==
  LET r == cleanup(Hub)
  IN IF c \notin Registered(connections)
       THEN r.conn[c] = conn[c] /\ r.response[c] = response[c]
     ELSE /\ ~r.conn[c].connected
          /\ ~r.conn[c].heartbeatInterval
          /\ r.response[c].ended =
               IF conn[c].connected THEN response[c].ended + 1
               ELSE response[c].ended
          /\ r.response[c].written =
               IF Live(Hub, c) THEN Append(response[c].written, disconnectEvent)
               ELSE response[c].written

\* C23: in every state cleanup() leaves both indexes empty and the total
\* count 0; every registered connection that is connected has its transport
\* ended once, after one 'disconnect' if its write works, and is marked
\* disconnected with its heartbeat timer cleared; connections that were not
\* registered are not touched; and a connection that is in no index has no
\* heartbeat timer, so no heartbeat is written to it.
C23_CleanupClosesAll ==
  /\ cleanup(Hub).connections = EmptyMap
  /\ cleanup(Hub).userConnections = EmptyMap
  /\ totalConnections(cleanup(Hub).connections) = 0
  /\ \A c \in DOMAIN conn : ShutDown(c)
  /\ \A c \in DOMAIN conn :
       ~Filed(Hub, c) => ~conn[c].heartbeatInterval /\ ~conn[c].connected

C23_Witness ==
  /\ ~cleanupInterval
  /\ connections = EmptyMap /\ userConnections = EmptyMap
  /\ Len(conn) = MaxAttach
  /\ \A c \in DOMAIN conn :
       /\ response[c].ended = 1
       /\ response[c].written =
            <<connectedEvent(conn[c].searchId), disconnectEvent>>
       /\ ~conn[c].heartbeatInterval /\ ~conn[c].connected

\* C24: whatever has been written to a transport starts with the 'connected'
\* event of its connection, which names the session and carries no id;
\* 'connected' is written once; and a transport whose write works has got
\* it from the moment its connection exists.
C24_ConnectedFirst ==
  \A c \in DOMAIN conn :
    /\ response[c].written # <<>> =>
         /\ response[c].written[1] = connectedEvent(conn[c].searchId)
         /\ response[c].written[1].id = <<>>
         /\ \A i \in DOMAIN response[c].written :
              IsConnected(response[c].written[i]) => i = 1
    /\ response[c].write = "ok" => response[c].written # <<>>

C24_Witness ==
  \E c \in DOMAIN conn :
    /\ Live(Hub, c)
    /\ response[c].written = <<connectedEvent(conn[c].searchId), heartbeatEvent>>

Refused == {SearchNotFound, StreamEndpointError}

OwnershipStep ==
  /\ \A c \in DOMAIN conn' :
       c \notin DOMAIN conn =>
         /\ getSearchById(conn'[c].searchId, conn'[c].userId)
         /\ thrown' = NoError
  /\ thrown' \in Refused /\ thrown' # thrown =>
       UNCHANGED <<conn, response, connections, userConnections>>
  /\ \A searchId \in DOMAIN connections' : \A c \in connections'[searchId] :
       conn'[c].searchId = SearchId /\ conn'[c].userId = UserId

\* C25: the route creates a connection only for a session and a user for
\* which getSearchById finds the row; the request whose lookup fails (the
\* session does not exist, belongs to another user, or the read failed)
\* creates, registers and writes to no connection; so every registered
\* connection is one of the owner of its session.
C25_OwnerOnly == [][OwnershipStep]_vars

C25_Witness ==
  /\ thrown = SearchNotFound
  /\ dbStatus = "PROCESSING"
  /\ Len(conn) = 1
  /\ Registered(connections) = {1}
  /\ Registered(userConnections) = {1}
  /\ conn[1].userId = UserId

StreamError == "Failed to start IRA stream"

\* startStreamSearch has rejected after createThread or startStream failed.
StartRejected == startPc = "rejected" /\ startErr \in {ThreadError, StreamError}

\* C26: when startStreamSearch has rejected because the upstream thread or
\* stream could not be opened, FAILED is recorded with that error, exactly
\* one 'error' signal carrying it has been broadcast, the search is not in
\* activeStreams, no upstream stream is open, and nothing was tried twice.
C26_StartFailureReported ==
  StartRejected =>
    /\ dbStatus = "FAILED"
    /\ dbError = startErr
    /\ statusLog = <<"INITIATED", "PROCESSING", "FAILED">>
    /\ Len(Errors) = 1
    /\ Errors[1] = Broadcast("error", "IRA_SERVICE_ERROR", startErr, <<>>, 0)
    /\ ~active /\ upstream = "closed" /\ sequence = 0 /\ tasks = <<>>

\* No write to a transport and no state of the hub keeps a step of the
\* service from happening.
NeverHeldUp ==
  /\ ENABLED OnEndCore => ENABLED OnEnd
  /\ ENABLED OnErrorCore => ENABLED OnError
  /\ \A rest \in RelayFrames :
       ENABLED OnPartialDataCore(rest) => ENABLED OnPartialData(rest)
  /\ \A fresh \in SeqsUpTo(RelayFrames, 0, MaxChunkFrames) :
       ENABLED OnDataCore(fresh, <<>>) => ENABLED OnData(fresh, <<>>)
  /\ \A i \in DOMAIN tasks : \A ok \in BOOLEAN :
       /\ ENABLED CreateDoneCore(i, ok) => ENABLED CreateDone(i, ok)
       /\ ENABLED CompleteDoneCore(i, ok) => ENABLED CompleteDone(i, ok)
       /\ ENABLED FailDoneCore(i, ok) => ENABLED FailDone(i, ok)

\* C27: with an audience that attaches, detaches, breaks, goes stale and is
\* swept, every step either leaves the state of the search (status, error,
\* count, sequence counter, rows, tasks, active flag) as it is or changes it
\* exactly as the service does on its own for the same frames and write
\* outcomes; and every step the service can take on its own it can take
\* with the audience.  So attach, detach, failed writes and sweep never
\* change a status or a sequence counter.
C27_SessionUnaffected == [][NextUnobserved]_orchestratorVars /\ []NeverHeldUp

C27_Witness ==
  /\ dbStatus = "COMPLETED"
  /\ Len(persisted) = 1 /\ failed # {}
  /\ Len(conn) = MaxAudience
  /\ \A c \in DOMAIN conn :
       /\ ~Filed(Hub, c) /\ ~conn[c].connected
       /\ response[c].write = "throws"
       /\ \E i \in DOMAIN response[c].written : IsResult(response[c].written[i])

\* What the bytes of the body say: its text, decoded as a whole.
WireEvents == split(toString(wire))

\* C28: the blocks handed to the classifier depend only on the bytes the
\* upstream sent, not on how those bytes were cut into chunks: while the body
\* is open they are the non-blank complete blocks of the whole text so far,
\* and once it has ended the rest of the text is handed over as well.
C28_ChunkingIrrelevant ==
  /\ ~bodyEnded => decoded = handedOver(Front(WireEvents))
  /\ bodyEnded => decoded = handedOver(WireEvents)

\* The same, for a body whose characters are all one byte long.
C28_AsciiOnly ==
  (\A i \in DOMAIN wire : wire[i] \in {"0A", "61"}) => C28_ChunkingIrrelevant

\* Whether a message is an object with content.
HasContent(m) == ~m.isNull /\ m.content # ""

\* The classifier hands the orchestrator no event for the frame.
Dropped(r) == r.type \in {"NOTHING", "THROWS"}

\* The rule for one values frame: the content of the last message first,
\* then the final_result, then nothing.
ValuesRule(frame) ==
  LET data == frame.data
      r == IRAService_processStreamEvent(frame)
  IN IF Len(data.messages) > 0 /\ HasContent(data.messages[Len(data.messages)])
       THEN r = [type |-> "THINKING",
                 content |-> data.messages[Len(data.messages)].content]
     ELSE IF data.final_result # ""
       THEN r = [type |-> "REPORT", content |-> data.final_result]
     ELSE Dropped(r)

\* C29: every values frame the upstream delivers is classified by the rule:
\* THINKING with the content of the last message of a non-empty message list
\* when that message has content, whatever final_result the payload has;
\* otherwise REPORT with the final_result when there is one; otherwise the
\* frame is dropped.
C29_ValuesRule ==
  \A i \in DOMAIN frames :
    frames[i].type = "values" => ValuesRule(frames[i])

\* The same, for the values frames whose message list does not end in null.
C29_LastMessageAnObject ==
  \A i \in DOMAIN frames :
    /\ frames[i].type = "values"
    /\ ~(/\ Len(frames[i].data.messages) > 0
         /\ frames[i].data.messages[Len(frames[i].data.messages)].isNull)
    => /\ ValuesRule(frames[i])
       /\ IRAService_processStreamEvent(frames[i]).type # "THROWS"

\* What the last element of a list frame decides: THINKING for a non-empty
\* tool-call list, INTERMEDIATE otherwise, with its content, its type and
\* its tool-call list (empty when it has none).
LastElementDecides(frame) ==
  LET elems == frame.data.elems
      last == elems[Len(elems)]
      r == IRAService_processStreamEvent(frame)
  IN /\ Len(elems) > 0
     /\ ~last.isNull
     /\ r = [type |-> IF last.tool_calls \notin {<<>>, <<<<>>>>}
                        THEN "THINKING" ELSE "INTERMEDIATE",
             content |-> last.content,
             metadata |-> [messageType |-> last.type,
                           toolCalls |-> IF last.tool_calls = <<>>
                                           THEN <<>>
                                           ELSE last.tool_calls[1]]]

IsListFrame(frame) == frame.type = "messages" /\ frame.data.kind = "array"

\* C30 as stated: every messages frame whose payload is a list is classified
\* by its last element, THINKING or INTERMEDIATE.
C30_EveryListFrame ==
  \A i \in DOMAIN frames :
    IsListFrame(frames[i]) => LastElementDecides(frames[i])

\* C30: every messages frame whose payload is a list that ends in an element
\* with content is classified by that element: THINKING if it carries a
\* non-empty tool-call list, INTERMEDIATE otherwise, with its content as the
\* payload and its message type and tool-call list as side metadata; a list
\* frame that is empty or whose last element has no content yields nothing.
C30_MessagesRule ==
  \A i \in DOMAIN frames :
    IsListFrame(frames[i]) =>
      LET elems == frames[i].data.elems
      IN IF Len(elems) > 0 /\ HasContent(elems[Len(elems)])
           THEN LastElementDecides(frames[i])
           ELSE IRAService_processStreamEvent(frames[i]) = Nothing

\* A list frame of two messages that differ in content and in tool calls
\* has been classified and its event stored with the content of the last.
C30_Witness ==
  /\ Len(frames) > 0
  /\ IsListFrame(frames[1])
  /\ Len(frames[1].data.elems) > 1
  /\ frames[1].data.elems[1] = Message("Looking into X", <<>>)
  /\ frames[1].data.elems[2] = Message("Calling search", <<ToolCalls>>)
  /\ Len(persisted) > 0
  /\ persisted[1].type = "THINKING"
  /\ persisted[1].content = "Calling search"

\* A frame of a kind the classifier has no case for, a frame with no event
\* name included.
IsOtherFrame(frame) ==
  frame.type \notin {"null", "metadata", "values", "messages"}

\* The rule for the frames that are neither values nor messages frames, for
\* the frames whose data satisfies carries.
FallbackRule(frame, carries(_)) ==
  LET r == IRAService_processStreamEvent(frame)
  IN /\ IsOtherFrame(frame) /\ carries(frame.data) =>
          r = [type |-> "INTERMEDIATE", content |-> JSON_stringify(frame.data)]
     /\ frame.type = "metadata" /\ carries(frame.data) =>
          r = [type |-> "METADATA", content |-> frame.data]
     /\ ~isDefined(frame.data) => r = Nothing

\* C31: every frame of another kind than metadata, values and messages that
\* carries data is classified INTERMEDIATE with the data serialized to text,
\* every metadata frame with data METADATA with the data itself, and every
\* frame with no data at all yields nothing.
C31_FallbackNeverDrops ==
  \A i \in DOMAIN frames : FallbackRule(frames[i], isDefined)

\* The same, for the frames whose data is not 0, false or the empty string.
C31_TruthyData ==
  \A i \in DOMAIN frames : FallbackRule(frames[i], truthy)

\* The text sendEvent wrote for an event that is in a transport.
Written(event) == eventData(event.event, dataOf(event), event.id)

\* The text is the id line (if an id is given), the event line, the data
\* line and a blank line, and it parses back to the id, type and data given.
RoundTrip(event) ==
  /\ Written(event) =
       (IF event.id = <<>> THEN <<>>
          ELSE <<Line("id:", <<Space, Word(event.id[1])>>)>>)
       \o <<Line("event:", <<Space, Word(event.event)>>),
            Line("data:", <<Space, JSONText(dataOf(event))>>),
            EmptyLine, EmptyLine>>
  /\ parseSSEData(Written(event)) =
       [type |-> << <<Word(event.event)>> >>,
        data |-> <<dataOf(event)>>,
        id |-> IF event.id = <<>> THEN <<>>
                                   ELSE << <<Word(event.id[1])>> >>]

TerminalPositions ==
  {i \in DOMAIN broadcasts : IsTerminalSignal(broadcasts[i])}

\* C33: at most one terminal signal ('complete' or 'error') is ever
\* broadcast for the session, and no result event is broadcast after it,
\* however 'end', 'error', stopStream calls and pending 'data' callbacks
\* interleave.
C33_OneTerminalSignal ==
  /\ Cardinality(TerminalPositions) <= 1
  /\ \A i \in TerminalPositions : \A j \in DOMAIN broadcasts :
       j > i => broadcasts[j].event # "result"

\* At most one terminal signal in the runs in which stopStream is never
\* called.
C33_NeverStopped == stopCalls = 0 => Cardinality(TerminalPositions) <= 1

\* The ids of the result events written to the transport of connection c,
\* in the order of writing.
RECURSIVE resultIds(_)
resultIds(written) ==
  IF written = <<>> THEN <<>>
  ELSE (IF IsResult(Head(written)) THEN Head(written).id ELSE <<>>)
         \o resultIds(Tail(written))

StrictlyIncreasing(s) == \A i, j \in DOMAIN s : i < j => s[i] < s[j]

\* C34: the result events written to the transport of a connection carry
\* strictly increasing ids, in whatever order the persistence writes finish.
C34_IncreasingIds ==
  \A c \in DOMAIN response : StrictlyIncreasing(resultIds(response[c].written))

\* No result event is written twice and none carries an id that was not
\* issued: the ids of a transport are distinct and at most the counter.
C34_DistinctIds ==
  \A c \in DOMAIN response :
    LET ids == resultIds(response[c].written)
    IN /\ \A i, j \in DOMAIN ids : i # j => ids[i] # ids[j]
       /\ \A i \in DOMAIN ids : ids[i] \in 1..sequence

\* The totalResults recorded and announced is n.
TotalIs(n) ==
  /\ dbTotal = <<n>>
  /\ \A i \in DOMAIN broadcasts :
       IsComplete(broadcasts[i]) => broadcasts[i].total = n

\* C35: once the search has its terminal status and every callback has
\* returned, the totalResults recorded with the status and announced in the
\* 'complete' signal is the number of events persisted for the search.
C35_TotalIsPersistedCount ==
  (Quiescent /\ dbStatus \in Terminal) => TotalIs(Len(persisted))

\* The search has a terminal status and is not in activeStreams.
Over == dbStatus \in Terminal /\ ~active

\* C36: with successful writes, an upstream that eventually ends or errors
\* and fair scheduling of the callbacks, a search that started streaming
\* (it is in activeStreams) eventually has status COMPLETED or FAILED and is
\* out of activeStreams, for good.
C36_EventuallyOver == [](active => <>[]Over)

\* A search that streamed two frames is over, every callback returned.
C36_Witness ==
  /\ Over
  /\ Quiescent
  /\ Len(frames) > 1
  /\ Len(persisted) > 0

\* C37: after any sequence of addConnection, removeConnection, broadcast,
\* sweep and cleanup, the per-search index and the per-user index hold the
\* same connections, each connection is filed under its own searchId and
\* its own userId only, no index keeps an empty set, and
\* getTotalConnectionCount is the number of registered connections.
C37_RegistryConsistent ==
  /\ Registered(connections) = Registered(userConnections)
  /\ \A searchId \in DOMAIN connections :
       /\ connections[searchId] # {}
       /\ \A c \in connections[searchId] : conn[c].searchId = searchId
  /\ \A userId \in DOMAIN userConnections :
       /\ userConnections[userId] # {}
       /\ \A c \in userConnections[userId] : conn[c].userId = userId
  /\ totalConnections(connections) = Cardinality(Registered(connections))

\* Of two connections that were added, one is registered and the other was
\* removed and closed.
C37_Witness ==
  /\ Len(conn) = 2
  /\ Cardinality(Registered(connections)) = 1
  /\ \E c \in DOMAIN conn :
       c \notin Registered(connections) /\ response[c].ended > 0

\* A step that adds a connection whose 'connected' write failed leaves it
\* out of the registry and out of the count.
AttachStep ==
  Len(conn') > Len(conn) =>
    LET c == Len(conn')
    IN ~conn'[c].connected =>
         /\ c \notin Registered(connections')
         /\ c \notin Registered(userConnections')
         /\ totalConnections(connections') = totalConnections(connections)

\* C38: addConnection never leaves a dead connection registered: when the
\* 'connected' write to the transport fails during the attach, the
\* connection is in neither index and does not count toward maxConnections.
C38_NoDeadConnectionAdded == [][AttachStep]_vars

\* A connection that addConnection has just registered is connected when
\* its transport took the 'connected' event.
AttachedAliveStep ==
  Len(conn') > Len(conn) =>
    LET c == Len(conn')
    IN response'[c].write = "ok" =>
         /\ conn'[c].connected
         /\ c \in Registered(connections')
         /\ response'[c].written = <<connectedEvent(conn'[c].searchId)>>

C38_LiveConnectionAdded == [][AttachedAliveStep]_vars

\* The connection was closed or a write to its transport failed.
Gone(c) == ~conn[c].connected

\* A step writes nothing to the transport of a connection that is gone, and
\* the connection stays gone; a connection that leaves the registry is gone;
\* a heartbeat or a second close of a connection that is gone changes
\* nothing on its transport.
SilentStep ==
  \A c \in DOMAIN conn :
    /\ Gone(c) =>
         /\ response'[c].written = response[c].written
         /\ ~conn'[c].connected
         /\ sendEvent(Hub, c, heartbeatEvent).hub = Hub
         /\ close(Hub, c).response[c] = response[c]
    /\ (c \in Registered(connections) /\ c \notin Registered(connections')) =>
         /\ ~conn'[c].connected
         /\ ~conn'[c].heartbeatInterval

\* C39: once a connection has been removed or closed (removeConnection, the
\* stale sweep, cleanup or a failed write), nothing more is written to its
\* transport: no broadcast event, no heartbeat, no second 'disconnect'.
C39_SilentAfterClose == [][SilentStep]_vars

\* The first connection was closed with 'disconnect' on a working transport
\* and a later broadcast to its search went to the second connection only.
C39_Witness ==
  /\ Len(conn) = 2
  /\ conn[1].searchId = conn[2].searchId
  /\ Gone(1)
  /\ response[1].write = "ok"
  /\ response[1].written = <<connectedEvent(conn[1].searchId), disconnectEvent>>
  /\ \E i \in DOMAIN response[2].written : response[2].written[i] = UpdateEvent
====
